---- MODULE Spec2Model ----
(***************************************************************************)
(* media-janitor: the scan-state store (state.py), the scanner's queue and *)
(* catalog cache (scanner.py), the catalog client's delete/search requests *)
(* (arr_client.py) and the orchestrator with its rate limiter (janitor.py),*)
(* as one state machine.  Every coroutine is cut at its awaits: one action *)
(* is the code that runs between two suspension points.                    *)
(***************************************************************************)
EXTENDS Integers, Sequences, FiniteSets, TLC

\* ------------------------------------------------------------------ bounds
NumItems == 2          \* files known to the remote catalogs
MaxValidations == 2    \* validate_and_process calls in one behaviour
MaxRefreshes == 2      \* refresh_library calls in one behaviour
MaxScans == 2          \* run_background_scan calls in one behaviour
MaxDay == 2            \* calendar days the wall clock runs through
MaxBudget == 1         \* largest configured actions.max_replacements_per_day
MaxStoreCalls == 3     \* marking calls made on the store taken alone

\* ------------------------------------------------------------------ values
None == 0              \* Python None for ids, paths and stamps (all falsy)
Null == 0 - 1          \* Python None where 0 is a legal value (season, episode)
RADARR == "radarr"
SONARR == "sonarr"

ItemIds == 1 .. NumItems
Days == 1 .. MaxDay
VIds == 1 .. MaxValidations
RIds == 1 .. MaxRefreshes
BIds == 1 .. MaxScans

Range(s) == {s[k] : k \in DOMAIN s}

\* The remote catalogs: file i lives at path i; every third file is a movie
\* held by the Radarr instance, the others are episodes held by Sonarr.
ArrTypeOf(i) == IF i % 3 = 1 THEN RADARR ELSE SONARR
PathOf(i) == i
MovieId(i) == 10 + i
FileId(i) == 20 + i
EpisodeId(i) == 30 + i
\* Whether the bulk episode fetch could map file i to its episode id.
EpisodeIdInMap(i) == i % 3 = 2
SeriesIdOf(i) == 1
SeasonOf(i) == 1

\* MediaItem.title of file i, as the catalogs and the webhook payloads give it.
TitleOf(i) == IF ArrTypeOf(i) = RADARR THEN "a movie" ELSE "an episode"

\* MediaItem as _get_all_movies / _parse_episode_files build it.
CatalogItem(i) ==
    IF ArrTypeOf(i) = RADARR
    THEN [id |-> MovieId(i), file_path |-> PathOf(i), file_id |-> FileId(i),
          series_id |-> None, season_number |-> Null, episode_number |-> Null,
          episode_id |-> None, arr_type |-> RADARR, arr_instance |-> RADARR]
    ELSE LET episode_id == IF EpisodeIdInMap(i) THEN EpisodeId(i) ELSE None
         IN  [id |-> IF episode_id # None THEN episode_id ELSE FileId(i),
              file_path |-> PathOf(i), file_id |-> FileId(i),
              series_id |-> SeriesIdOf(i), season_number |-> SeasonOf(i),
              episode_number |-> i,
              episode_id |-> episode_id, arr_type |-> SONARR, arr_instance |-> SONARR]

\* MediaItem as _handle_arr_webhook builds it from an import payload;
\* hasEpId says whether the payload's first episode carries an "id".
WebhookItem(i, hasEpId) ==
    IF ArrTypeOf(i) = RADARR
    THEN [id |-> MovieId(i), file_path |-> PathOf(i), file_id |-> FileId(i),
          series_id |-> None, season_number |-> Null, episode_number |-> Null,
          episode_id |-> None, arr_type |-> RADARR, arr_instance |-> RADARR]
    ELSE LET episode_id == IF hasEpId THEN EpisodeId(i) ELSE None
         IN  [id |-> IF episode_id # None THEN episode_id ELSE 0,
              file_path |-> PathOf(i), file_id |-> FileId(i),
              series_id |-> SeriesIdOf(i), season_number |-> SeasonOf(i),
              episode_number |-> i,
              episode_id |-> episode_id, arr_type |-> SONARR, arr_instance |-> SONARR]

NoItem == [id |-> None, file_path |-> None, file_id |-> None,
           series_id |-> None, season_number |-> Null, episode_number |-> Null,
           episode_id |-> None, arr_type |-> "none", arr_instance |-> "none"]

\* ------------------------------------------------------- state.py: the store
\* StateManager.__init__: the fresh _state dict (no durable file yet).
ReplacedKeep == 500

InitState ==
    [scanned_files |-> << >>, replaced_files |-> << >>,
     scan_started |-> None, scan_completed |-> None,
     total_scanned |-> 0, total_invalid |-> 0, total_replaced |-> 0,
     total_wrong_files |-> 0,
     movies_scanned |-> 0, movies_total |-> 0, movies_replaced |-> 0,
     tv_scanned |-> 0, tv_total |-> 0, tv_replaced |-> 0]

\* The file of the store: missing, unreadable, not JSON ("garbage"), JSON
\* that is no object ("not_object", a list or null), or a saved state.
NoFile == [kind |-> "missing", content |-> InitState]

SaveEvery == 10

\* StateManager._save, lines 50-57: written: the dump succeeded; unchanged:
\* mkdir or open raised; truncated: open emptied the file and the dump
\* raised.  The exception is logged and swallowed.
_save(file, st, outcome) ==
    IF outcome = "written" THEN [kind |-> "state", content |-> st]
    ELSE IF outcome = "truncated" THEN [kind |-> "garbage", content |-> InitState]
    ELSE file

\* _save with a working disk.
Written(st) == _save(NoFile, st, "written")

\* A store that never flushes after mark_scanned.
SaveDueNever(st) == FALSE

\* mark_scanned, lines 90-92: the flush on every tenth scan.
SaveDue(st) == st.total_scanned % SaveEvery = 0

\* The file after mark_scanned has brought the store to st.
MarkScannedFile(file, st, outcome) ==
    IF SaveDue(st) THEN _save(file, st, outcome) ELSE file

FileAfterMarkScanned(file, st) == MarkScannedFile(file, st, "written")

\* What json.load makes of a file holding a list or null: no dict.
NotADict == [not_a_dict |-> TRUE]

IsDict(st) == st # NotADict

\* StateManager.__init__ and _load, lines 16-48: _state after construction.
\* A saved state comes back as it was dumped (strings, numbers, booleans,
\* None, lists and dicts with string keys survive json unchanged).  A
\* missing file is not opened; open or json.load raising leaves the fresh
\* dict; a list or null is assigned to _state at line 41 before .get on it
\* raises inside the same try.
_load(file) ==
    IF file.kind = "state" THEN file.content
    ELSE IF file.kind = "not_object" THEN NotADict
    ELSE InitState

is_scanned(st, file_path) == file_path \in DOMAIN st.scanned_files

get_scanned_paths(st) == DOMAIN st.scanned_files

\* A marking that records every file as valid.
mark_scanned_as_valid(st, file_path, valid, media_type) ==
    [st EXCEPT
       !.scanned_files =
           [q \in (DOMAIN st.scanned_files) \cup {file_path} |->
               IF q = file_path
               THEN [valid |-> TRUE, media_type |-> media_type]
               ELSE st.scanned_files[q]],
       !.total_scanned = @ + 1,
       !.movies_scanned = IF media_type = "movie" THEN @ + 1 ELSE @,
       !.tv_scanned = IF media_type = "tv" THEN @ + 1 ELSE @]

mark_scanned(st, file_path, valid, media_type) ==
    [st EXCEPT
       !.scanned_files =
           [q \in (DOMAIN st.scanned_files) \cup {file_path} |->
               IF q = file_path
               THEN [valid |-> valid, media_type |-> media_type]
               ELSE st.scanned_files[q]],
       !.total_scanned = @ + 1,
       !.total_invalid = IF valid THEN @ ELSE @ + 1,
       !.movies_scanned = IF media_type = "movie" THEN @ + 1 ELSE @,
       !.tv_scanned = IF media_type = "tv" THEN @ + 1 ELSE @]

ClearRecordOfAll(st, file_path) == << >>

ClearRecord(st, file_path) ==
    [q \in (DOMAIN st.scanned_files) \ {file_path} |-> st.scanned_files[q]]

\* A history that takes no new entry.
AppendReplacedNever(history, entry) == history

\* A full history that keeps its oldest entries.
AppendReplacedKeepOldest(history, entry) ==
    IF Len(history) >= ReplacedKeep THEN history ELSE Append(history, entry)

\* mark_replaced, lines 126-138: the history keeps the last 500 entries.
AppendReplaced(history, entry) ==
    LET all == Append(history, entry)
    IN  IF Len(all) > ReplacedKeep
        THEN SubSeq(all, Len(all) - ReplacedKeep + 1, Len(all))
        ELSE all

\* StateManager.mark_replaced with all its arguments.
mark_replaced_entry(st, file_path, wrong_file, title, reason, media_type) ==
    [st EXCEPT
       !.scanned_files = ClearRecord(st, file_path),
       !.replaced_files =
           AppendReplaced(@, [path |-> file_path, title |-> title,
                              reason |-> reason, wrong_file |-> wrong_file,
                              media_type |-> media_type]),
       !.total_replaced = @ + 1,
       !.total_invalid = @ + 1,
       !.total_wrong_files = IF wrong_file THEN @ + 1 ELSE @,
       !.movies_replaced = IF media_type = "movie" THEN @ + 1 ELSE @,
       !.tv_replaced = IF media_type = "tv" THEN @ + 1 ELSE @]

\* mark_replaced called without title and reason: their defaults are "".
mark_replaced(st, file_path, wrong_file, media_type) ==
    mark_replaced_entry(st, file_path, wrong_file, "", "", media_type)

mark_scan_started(st, now) == [st EXCEPT !.scan_started = now]

mark_scan_completed(st, now) == [st EXCEPT !.scan_completed = now]

\* A setter that stores the movie total only.
set_library_totals_movies_only(st, movies_total, tv_total) ==
    [st EXCEPT !.movies_total = movies_total]

set_library_totals(st, movies_total, tv_total) ==
    [st EXCEPT !.movies_total = movies_total, !.tv_total = tv_total]

CountType(st, media_type) ==
    Cardinality({q \in DOMAIN st.scanned_files :
                    st.scanned_files[q].media_type = media_type})

get_stats(st) ==
    [total_scanned |-> Cardinality(DOMAIN st.scanned_files),
     valid_files |-> Cardinality({q \in DOMAIN st.scanned_files :
                                     st.scanned_files[q].valid}),
     invalid_files |-> st.total_invalid,
     total_replaced |-> st.total_replaced,
     total_wrong_files |-> st.total_wrong_files,
     scan_started |-> st.scan_started,
     scan_completed |-> st.scan_completed,
     initial_scan_done |-> st.scan_completed # None,
     movies_scanned |-> CountType(st, "movie") + st.movies_replaced,
     movies_total |-> st.movies_total,
     tv_scanned |-> CountType(st, "tv") + st.tv_replaced,
     tv_total |-> st.tv_total]

\* ------------------------------------------- arr_client.py: remote requests
\* ArrClient.delete_file: the key put into moviefile/{..} or episodefile/{..}.
DeleteRequest(arr_type, file_id) ==
    [op |-> "delete",
     endpoint |-> IF arr_type = RADARR THEN "moviefile" ELSE "episodefile",
     key |-> file_id]

\* ArrClient._get_episode_id_by_info: the remote's episode id for the
\* coordinates, None when the coordinates are incomplete; found = FALSE is a
\* failed or empty lookup.
get_episode_id_by_info(series_id, season, episode, found) ==
    IF series_id = None \/ season = Null \/ episode = Null THEN None
    ELSE IF found THEN EpisodeId(episode) ELSE None

\* ArrClient.search_for_replacement / _fallback_search: the key of the release
\* search (movieId / episodeId) or of the search command; None when no keyed
\* request is made (no episode id could be found).
SearchKey(arr_type, item, found) ==
    IF arr_type = RADARR THEN item.id
    ELSE IF item.episode_id # None THEN item.episode_id
         ELSE get_episode_id_by_info(item.series_id, item.season_number,
                                     item.episode_number, found)

SearchRequest(arr_type, item, found) ==
    [op |-> "search",
     endpoint |-> IF arr_type = RADARR THEN "movieId" ELSE "episodeId",
     key |-> SearchKey(arr_type, item, found)]

\* A replacement that deletes by the search id.
DeletionKeyById(item) == item.id

\* Janitor._replace_file: the argument it hands to client.delete_file.
DeletionKey(item) == item.file_id

\* ------------------------------------------------- scanner.py: pure helpers
InterleaveChunk == 10

Min(a, b) == IF a < b THEN a ELSE b

\* A queue of all movies followed by all episodes.
InterleaveMoviesFirst(movies, tv) == movies \o tv

RECURSIVE Interleave(_, _)
Interleave(movies, tv) ==
    IF movies = << >> /\ tv = << >> THEN << >>
    ELSE LET k == Min(InterleaveChunk, Len(tv))
         IN  (IF movies # << >> THEN << Head(movies) >> ELSE << >>)
             \o SubSeq(tv, 1, k)
             \o Interleave(IF movies # << >> THEN Tail(movies) ELSE << >>,
                           SubSeq(tv, k + 1, Len(tv)))

OfType(seq, arr_type) == SelectSeq(seq, LAMBDA it : it.arr_type = arr_type)

\* random.shuffle: every reordering of the list.
Shuffles(seq) ==
    {[k \in 1 .. Len(seq) |-> seq[f[k]]] : f \in Permutations(1 .. Len(seq))}

\* get_all_media of one instance: the items of the files it holds now.
RECURSIVE MediaFrom(_, _, _)
MediaFrom(instance, held, i) ==
    IF i > NumItems THEN << >>
    ELSE (IF i \in held /\ CatalogItem(i).arr_instance = instance
          THEN << CatalogItem(i) >> ELSE << >>)
         \o MediaFrom(instance, held, i + 1)

\* dict writes: d[key] = value, keeping the other entries.
Put(d, key, value) ==
    [q \in (DOMAIN d) \cup {key} |-> IF q = key THEN value ELSE d[q]]

\* The flat path -> item cache of a refresh (last write wins).
RECURSIVE FlatCache(_)
FlatCache(all_media) ==
    IF all_media = << >> THEN << >>
    ELSE LET item == all_media[Len(all_media)]
             rest == FlatCache(SubSeq(all_media, 1, Len(all_media) - 1))
         IN  IF item.file_path # None THEN Put(rest, item.file_path, item) ELSE rest

\* The per-instance cache: a dict in insertion order, kept as a sequence of
\* [instance, cache] entries.
InstanceIndex(by_instance, instance) ==
    IF \E k \in DOMAIN by_instance : by_instance[k].instance = instance
    THEN CHOOSE k \in DOMAIN by_instance : by_instance[k].instance = instance
    ELSE 0

PutInstance(by_instance, item) ==
    LET k == InstanceIndex(by_instance, item.arr_instance)
    IN  IF k = 0
        THEN Append(by_instance,
                    [instance |-> item.arr_instance,
                     cache |-> Put(<< >>, item.file_path, item)])
        ELSE [by_instance EXCEPT ![k].cache = Put(@, item.file_path, item)]

RECURSIVE InstanceCache(_)
InstanceCache(all_media) ==
    IF all_media = << >> THEN << >>
    ELSE LET item == all_media[Len(all_media)]
             rest == InstanceCache(SubSeq(all_media, 1, Len(all_media) - 1))
         IN  IF item.file_path # None /\ item.arr_instance # "none"
             THEN PutInstance(rest, item) ELSE rest

\* A client choice by type alone: the first connected client of the item's type.
get_client_for_item_by_type(item, radarr, sonarr) ==
    IF item.arr_type = RADARR
    THEN IF radarr # << >> THEN radarr[1] ELSE "none"
    ELSE IF sonarr # << >> THEN sonarr[1] ELSE "none"

\* Scanner.get_client_for_item: the instance name of the client, "none" if no
\* connected client of the item's type has the item's instance name.
get_client_for_item(item, radarr, sonarr) ==
    IF item.arr_type = RADARR
    THEN IF item.arr_instance \in Range(radarr) THEN item.arr_instance ELSE "none"
    ELSE IF item.arr_instance \in Range(sonarr) THEN item.arr_instance ELSE "none"

\* Scanner.find_item_by_path: [item, client]; NoItem and "none" on a miss.
find_item_by_path(file_path, cache, by_instance, radarr, sonarr) ==
    LET hits == {k \in DOMAIN by_instance :
                    /\ file_path \in DOMAIN by_instance[k].cache
                    /\ get_client_for_item(by_instance[k].cache[file_path],
                                           radarr, sonarr) # "none"}
    IN  IF hits # {}
        THEN LET k == CHOOSE h \in hits : \A g \in hits : h <= g
                 item == by_instance[k].cache[file_path]
             IN  [item |-> item, client |-> get_client_for_item(item, radarr, sonarr)]
        ELSE IF /\ file_path \in DOMAIN cache
                /\ get_client_for_item(cache[file_path], radarr, sonarr) # "none"
             THEN [item |-> cache[file_path],
                   client |-> get_client_for_item(cache[file_path], radarr, sonarr)]
             ELSE [item |-> NoItem, client |-> "none"]

\* Scanner.get_next_batch
Take(seq, count) == SubSeq(seq, 1, Min(count, Len(seq)))
Drop(seq, count) == SubSeq(seq, Min(count, Len(seq)) + 1, Len(seq))

\* A completion check that looks at the movie counts only.
check_initial_scan_complete_movies_only(complete, queue, last_refresh, st, now) ==
    IF complete THEN [ret |-> TRUE, state |-> st, complete |-> TRUE]
    ELSE IF Len(queue) = 0 /\ last_refresh # None
    THEN LET stats == get_stats(st)
         IN  IF stats.movies_total > 0 /\ stats.movies_scanned < stats.movies_total
             THEN [ret |-> FALSE, state |-> st, complete |-> FALSE]
             ELSE [ret |-> TRUE, state |-> mark_scan_completed(st, now),
                   complete |-> TRUE]
    ELSE [ret |-> FALSE, state |-> st, complete |-> FALSE]

\* Scanner.check_initial_scan_complete: [ret, state, complete] for the flag
\* _initial_scan_complete, the queue, _last_full_refresh and the store.
check_initial_scan_complete(complete, queue, last_refresh, st, now) ==
    IF complete THEN [ret |-> TRUE, state |-> st, complete |-> TRUE]
    ELSE IF Len(queue) = 0 /\ last_refresh # None
    THEN LET stats == get_stats(st)
         IN  IF stats.movies_total > 0 /\ stats.movies_scanned < stats.movies_total
             THEN [ret |-> FALSE, state |-> st, complete |-> FALSE]
             ELSE IF stats.tv_total > 0 /\ stats.tv_scanned < stats.tv_total
             THEN [ret |-> FALSE, state |-> st, complete |-> FALSE]
             ELSE [ret |-> TRUE, state |-> mark_scan_completed(st, now),
                   complete |-> TRUE]
    ELSE [ret |-> FALSE, state |-> st, complete |-> FALSE]

\* refresh_library, lines 151-161: the totals it stores for its source.
RefreshTotals(source, st, movies_total, tv_total) ==
    IF source = "all" THEN set_library_totals(st, movies_total, tv_total)
    ELSE IF source = "movies"
    THEN set_library_totals(st, movies_total, get_stats(st).tv_total)
    ELSE IF source = "tv"
    THEN set_library_totals(st, get_stats(st).movies_total, tv_total)
    ELSE st

\* refresh_library, lines 163-170: the fetched items not yet scanned.
NewItems(all_media, scanned_paths) ==
    SelectSeq(all_media,
              LAMBDA it : it.file_path # None /\ it.file_path \notin scanned_paths)

\* A refresh that drops the queued movies whatever its source.
QueueMoviesFetchedOnly(source, movies, queue) == movies

\* refresh_library, lines 194-204: what a partial refresh keeps of the queue.
QueueMovies(source, movies, queue) ==
    IF source = "tv" THEN OfType(queue, RADARR) ELSE movies

QueueTv(source, tv, queue) ==
    IF source = "movies" THEN OfType(queue, SONARR) ELSE tv

\* watch_counts.get(x.file_path or "", 0), lines 187-188.
ViewCount(watch_counts, file_path) ==
    IF file_path \in DOMAIN watch_counts THEN watch_counts[file_path] ELSE 0

\* list.sort(key = view count, reverse = True): a stable sort, so items of
\* equal count keep their order. The item goes behind every item whose
\* count is at least its own.
InsertByCount(sorted, it, watch_counts) ==
    LET k == Cardinality({j \in 1 .. Len(sorted) :
                             ViewCount(watch_counts, sorted[j].file_path)
                                >= ViewCount(watch_counts, it.file_path)})
    IN  SubSeq(sorted, 1, k) \o << it >> \o SubSeq(sorted, k + 1, Len(sorted))

\* A list left in the order it was fetched in.
KeepOrder(seq, watch_counts) == seq

RECURSIVE SortByCount(_, _)
SortByCount(seq, watch_counts) ==
    IF seq = << >> THEN << >>
    ELSE InsertByCount(SortByCount(SubSeq(seq, 1, Len(seq) - 1), watch_counts),
                       seq[Len(seq)], watch_counts)

\* Lines 185-192: the orders a fetched list may get.
Prioritize(seq, watch_counts) ==
    IF DOMAIN watch_counts # {} THEN {SortByCount(seq, watch_counts)}
    ELSE Shuffles(seq)

\* refresh_library, lines 206-221.
BuildQueue(source, movies, tv, queue) ==
    Interleave(QueueMovies(source, movies, queue), QueueTv(source, tv, queue))

\* ------------------------------------------------- validation.py: validate_file
SampleDuration == 30
MaxDurationHours == 12
ShortDuration == 60

\* probe.duration in seconds (0: ffprobe reported none): shorter than a
\* minute, too short for a middle sample, long enough for all three samples,
\* longer than the ceiling.
Durations == {0, 45, 75, 120, 50000}

\* What the ffmpeg subprocess of one decode test did: it exited with a return
\* code and stderr lines ("w": a line _is_ignorable_ffmpeg_warning accepts),
\* it outlived the timeout, or starting it raised.
StderrCases == {<< >>, << "w" >>, << "e1" >>, << "w", "e1" >>, << "e1", "e2" >>}

RawDecodes ==
    [kind : {"exit"}, returncode : {0, 1}, stderr : StderrCases]
        \cup {[kind |-> "timeout", returncode |-> 0, stderr |-> << >>],
              [kind |-> "exception", returncode |-> 0, stderr |-> << >>]}

is_ignorable_ffmpeg_warning(line) == line = "w"

\* A decode test that reports a timeout as an ordinary failure.
run_ffmpeg_decode_test_no_flag(raw) ==
    IF raw.kind \in {"timeout", "exception"}
    THEN [success |-> FALSE, errors |-> << "ffmpeg decode test timed out" >>,
          timed_out |-> FALSE]
    ELSE LET errors == SelectSeq(raw.stderr,
                                 LAMBDA line : ~is_ignorable_ffmpeg_warning(line))
             success == raw.returncode = 0 /\ Len(errors) = 0
         IN  [success |-> success,
              errors |-> IF ~success /\ errors = << >>
                         THEN << "ffmpeg exited with code" >> ELSE errors,
              timed_out |-> FALSE]

\* run_ffmpeg_decode_test: (success, errors, timed_out).
run_ffmpeg_decode_test(raw) ==
    IF raw.kind = "timeout"
    THEN [success |-> FALSE, errors |-> << "ffmpeg decode test timed out" >>,
          timed_out |-> TRUE]
    ELSE IF raw.kind = "exception"
    THEN [success |-> FALSE, errors |-> << "exception" >>, timed_out |-> FALSE]
    ELSE LET errors == SelectSeq(raw.stderr,
                                 LAMBDA line : ~is_ignorable_ffmpeg_warning(line))
             success == raw.returncode = 0 /\ Len(errors) = 0
         IN  [success |-> success,
              errors |-> IF ~success /\ errors = << >>
                         THEN << "ffmpeg exited with code" >> ELSE errors,
              timed_out |-> FALSE]

\* f"Decode error (start): {e}" and the like: the stage and the error.
Tagged(stage, errors) ==
    [k \in 1 .. Len(errors) |-> [stage |-> stage, error |-> errors[k]]]

\* The config objects validate_file is handed.  extended = FALSE is a
\* ValidationConfig as config.py declares it: it has no replace_3d attribute
\* and no deep_scan_mode (getattr falls back to "partial").  extended = TRUE
\* is an object that carries both.
ValidationConfigs ==
    {c \in [extended : BOOLEAN, replace_3d : BOOLEAN,
            check_duration_sanity : BOOLEAN, deep_scan_enabled : BOOLEAN,
            deep_scan_mode : {"partial", "full"}, full_decode_enabled : BOOLEAN] :
         ~c.extended => ~c.replace_3d /\ c.deep_scan_mode = "partial"}

NoValidation ==
    [pc |-> "idle",
     cfg |-> [extended |-> FALSE, replace_3d |-> FALSE,
              check_duration_sanity |-> TRUE, deep_scan_enabled |-> TRUE,
              deep_scan_mode |-> "partial", full_decode_enabled |-> FALSE],
     detected_3d |-> FALSE, low_bitrate |-> FALSE, duration |-> 0,
     probe_failed |-> FALSE,
     valid |-> TRUE, timed_out |-> FALSE, errors |-> << >>, warnings |-> << >>,
     decoded |-> << >>]

\* validate_file, lines 396-443: the result after a decode test of `stage`.
ApplyDecode(r, stage, raw) ==
    LET res == run_ffmpeg_decode_test(raw)
        r1 == [r EXCEPT !.decoded = Append(@, [stage |-> stage, raw |-> raw,
                                               result |-> res])]
    IN  IF ~res.success
        THEN [r1 EXCEPT !.valid = FALSE,
                        !.timed_out = @ \/ res.timed_out,
                        !.errors = @ \o Tagged(stage, res.errors)]
        ELSE r1

\* Step 6 (lines 435-443): the full decode runs only on a still valid file.
AfterDeepScan(r) ==
    IF r.cfg.full_decode_enabled /\ r.valid THEN [r EXCEPT !.pc = "full"]
    ELSE [r EXCEPT !.pc = "done"]

\* Lines 421-432: the end sample.
AfterMiddle(r) ==
    IF r.valid /\ r.duration > SampleDuration * 2 THEN [r EXCEPT !.pc = "end"]
    ELSE AfterDeepScan(r)

\* A deep scan that goes on to the middle sample whatever the start gave.
AfterStartNoFailFast(r) ==
    IF r.cfg.deep_scan_mode = "full"
    THEN IF r.duration > SampleDuration * 3
         THEN [r EXCEPT !.pc = "middle"]
         ELSE AfterMiddle(r)
    ELSE AfterDeepScan(r)

\* Lines 407-419: middle and end only in "full" mode.
AfterStart(r) ==
    IF r.cfg.deep_scan_mode = "full"
    THEN IF r.valid /\ r.duration > SampleDuration * 3
         THEN [r EXCEPT !.pc = "middle"]
         ELSE AfterMiddle(r)
    ELSE AfterDeepScan(r)

\* A validator that takes a duration under a minute for a failure.
AfterProbe3DShortFails(r) ==
    LET checked == r.cfg.check_duration_sanity /\ r.duration # 0
        too_long == checked /\ r.duration > MaxDurationHours * 3600
        short == checked /\ r.duration < ShortDuration
        r1 == [r EXCEPT
                 !.valid = IF too_long \/ short THEN FALSE ELSE @,
                 !.errors = IF too_long
                            THEN Append(@, [stage |-> "duration",
                                            error |-> "exceeds max"])
                            ELSE @,
                 !.warnings = (IF short THEN Append(@, "short") ELSE @)
                              \o (IF r.low_bitrate THEN << "bitrate" >> ELSE << >>)]
    IN  IF r1.cfg.deep_scan_enabled /\ r1.duration # 0
        THEN [r1 EXCEPT !.pc = "start"]
        ELSE AfterDeepScan(r1)

\* Steps 3 to 5 (lines 348-400), up to the first decode test.
AfterProbe3D(r) ==
    LET checked == r.cfg.check_duration_sanity /\ r.duration # 0
        too_long == checked /\ r.duration > MaxDurationHours * 3600
        short == checked /\ r.duration < ShortDuration
        r1 == [r EXCEPT
                 !.valid = IF too_long THEN FALSE ELSE @,
                 !.errors = IF too_long
                            THEN Append(@, [stage |-> "duration",
                                            error |-> "exceeds max"])
                            ELSE @,
                 !.warnings = (IF short THEN Append(@, "short") ELSE @)
                              \o (IF r.low_bitrate THEN << "bitrate" >> ELSE << >>)]
    IN  IF r1.cfg.deep_scan_enabled /\ r1.duration # 0
        THEN [r1 EXCEPT !.pc = "start"]
        ELSE AfterDeepScan(r1)

\* A validator that notes the failed probe and goes on to the later steps.
AfterProbeGoesOn(r, success) ==
    IF ~r.cfg.extended THEN [r EXCEPT !.pc = "raised"]
    ELSE AfterProbe3D(IF success THEN r
                      ELSE [r EXCEPT !.valid = FALSE, !.probe_failed = TRUE,
                                     !.errors = << [stage |-> "ffprobe",
                                                    error |-> "failed"] >>])

\* Steps 1 and 2 (lines 311-346): ffprobe has returned.
AfterProbe(r, success) ==
    IF ~success
    THEN [r EXCEPT !.pc = "done", !.valid = FALSE, !.probe_failed = TRUE,
                   !.errors = << [stage |-> "ffprobe", error |-> "failed"] >>]
    ELSE IF ~r.cfg.extended
    THEN [r EXCEPT !.pc = "raised"]
    ELSE IF r.cfg.replace_3d /\ r.detected_3d
    THEN [r EXCEPT !.pc = "done", !.valid = FALSE,
                   !.errors = << [stage |-> "3d", error |-> "detected"] >>]
    ELSE AfterProbe3D(r)

\* The decode test validate_file was waiting for has returned.
AfterDecode(r, raw) ==
    LET r1 == ApplyDecode(r, r.pc, raw)
    IN  IF r.pc = "start" THEN AfterStart(r1)
        ELSE IF r.pc = "middle" THEN AfterMiddle(r1)
        ELSE IF r.pc = "end" THEN AfterDeepScan(r1)
        ELSE [r1 EXCEPT !.pc = "done"]

\* ------------------------------------------------------------ config.py
FilesPerHour == 300

\* run_background_scan: batch_size = max(1, files_per_hour // 60)
BatchSize == IF FilesPerHour \div 60 > 1 THEN FilesPerHour \div 60 ELSE 1

Sources == {"all", "movies", "tv"}

Configs ==
    [auto_replace : BOOLEAN, dry_run : BOOLEAN,
     max_replacements_per_day : 1 .. MaxBudget,
     mode : {"watch_only", "continuous"}]

\* ------------------------------------------------------------------ state
VARIABLES
    config,                   \* Config: the actions and scanner settings
    today,                    \* datetime.now().date()
    files,                    \* files the remote catalogs and the disk hold
    state,                    \* StateManager._state
    state_file,               \* the file StateManager.state_file names
    scan_queue,               \* Scanner._scan_queue
    last_full_refresh,        \* Scanner._last_full_refresh
    initial_scan_complete,    \* Scanner._initial_scan_complete
    refresh_status,           \* Scanner._refreshing, _refresh_source, ...
    media_cache,              \* Scanner._media_cache
    media_cache_by_instance,  \* Scanner._media_cache_by_instance
    radarr_clients,           \* Scanner._radarr_clients (instance names)
    sonarr_clients,           \* Scanner._sonarr_clients
    initialized,              \* Janitor.initialize has run
    replacements_today,       \* Janitor._replacements_today
    replacement_reset_date,   \* Janitor._replacement_reset_date
    vtask,                    \* the validate_and_process coroutines
    rtask,                    \* the refresh_library coroutines
    bgtask,                   \* the run_background_scan coroutines
    requests,                 \* delete / search requests sent so far
    deleted_on,               \* files deleted through delete_file, per day
    returned,                 \* the validate_and_process call that returned last
    val,                      \* one validate_file call: its inputs and its result
    results                   \* NotificationManager._results: how many it holds

vars == << config, today, files, state, state_file, scan_queue, last_full_refresh,
           initial_scan_complete, refresh_status, media_cache,
           media_cache_by_instance, radarr_clients, sonarr_clients, initialized,
           replacements_today, replacement_reset_date, vtask, rtask, bgtask,
           requests, deleted_on, returned, val, results >>

IdleV == [pc |-> "idle", file_path |-> None, item |-> NoItem, client |-> "none",
          owner |-> 0, outcome |-> "none"]

DoneV == [IdleV EXCEPT !.pc = "done"]

\* What a validate_and_process call did, told when it returns: the verdict it
\* got, the disposition of its ScanResult ("skipped" when it returned None),
\* whether it marked the path scanned, deleted the file, sent a search.
NoReturn == [file_path |-> None, outcome |-> "none", action_taken |-> "none",
             marked |-> "no", deleted |-> FALSE, searched |-> FALSE,
             errors |-> << >>]

IdleR == [pc |-> "idle", source |-> "none", owner |-> 0, pending |-> << >>,
          all_media |-> << >>, movies_total |-> 0, tv_total |-> 0, count |-> 0,
          new_items |-> << >>, watch_counts |-> << >>]

IdleB == [pc |-> "idle", batch |-> << >>, vid |-> 0, rid |-> 0,
          initial_done |-> FALSE]

NoRefresh == [refreshing |-> FALSE, refresh_source |-> "none",
              refresh_phase |-> "none", refresh_current_instance |-> "none"]

InitService ==
    /\ config \in Configs
    /\ today = 1
    /\ files = ItemIds
    /\ state = InitState
    /\ state_file = NoFile
    /\ scan_queue = << >>
    /\ last_full_refresh = None
    /\ initial_scan_complete = get_stats(InitState).initial_scan_done
    /\ refresh_status = NoRefresh
    /\ media_cache = << >>
    /\ media_cache_by_instance = << >>
    /\ radarr_clients = << >>
    /\ sonarr_clients = << >>
    /\ initialized = FALSE
    /\ replacements_today = 0
    /\ replacement_reset_date = 1
    /\ vtask = [v \in VIds |-> IdleV]
    /\ rtask = [r \in RIds |-> IdleR]
    /\ bgtask = [b \in BIds |-> IdleB]
    /\ requests = {}
    /\ deleted_on = [d \in Days |-> 0]
    /\ returned = NoReturn
    /\ results = 0

Init == InitService /\ val = NoValidation

\* The first unused coroutine slot, 0 when the bound is exhausted.
FreeOf(tasks) ==
    IF \E k \in DOMAIN tasks : tasks[k].pc = "idle"
    THEN CHOOSE k \in DOMAIN tasks :
            tasks[k].pc = "idle" /\ \A j \in DOMAIN tasks : j < k => tasks[j].pc # "idle"
    ELSE 0

\* ------------------------------------------------- janitor.py: one file
\* A limiter that lets one replacement too many through.
check_rate_limit_inclusive(count, reset_date, now, budget) ==
    LET c == IF now # reset_date THEN 0 ELSE count
    IN  [ok |-> c <= budget, count |-> c, date |-> now]

\* A limiter that never looks at the date.
check_rate_limit_no_reset(count, reset_date, now, budget) ==
    [ok |-> count < budget, count |-> count, date |-> reset_date]

\* A counter that a replacement leaves as it is.
increment_replacement_count_not(count) == count

\* Janitor._increment_replacement_count
increment_replacement_count(count) == count + 1

\* Janitor._check_rate_limit: [ok, count, date] after the date-based reset.
check_rate_limit(count, reset_date, now, budget) ==
    LET c == IF now # reset_date THEN 0 ELSE count
    IN  [ok |-> c < budget, count |-> c, date |-> now]

MediaType(item) == IF item.arr_type = RADARR THEN "movie" ELSE "tv"

\* The media type of the file at a path: "movie" for a Radarr file, "tv" for
\* a Sonarr one.
PathMediaType(file_path) ==
    LET i == CHOOSE j \in ItemIds : PathOf(j) = file_path
    IN  IF ArrTypeOf(i) = RADARR THEN "movie" ELSE "tv"

ClientArrType(client) == IF client = RADARR THEN RADARR ELSE SONARR

\* A disk on which every path exists.
OnDiskAlways(held) == {PathOf(i) : i \in ItemIds}

OnDisk(held) == {PathOf(i) : i \in held}

\* validate_and_process up to its first await (lines 76-93): the two
\* terminal skips, else the coroutine waits for validate_file.
StartValidation(file_path, owner, held, cache, by_instance, radarr, sonarr) ==
    LET f == find_item_by_path(file_path, cache, by_instance, radarr, sonarr)
    IN  IF file_path \notin OnDisk(held) \/ f.item = NoItem
        THEN DoneV
        ELSE [IdleV EXCEPT !.pc = "validate", !.file_path = file_path,
                           !.owner = owner, !.item = f.item, !.client = f.client]

Skipped(file_path) ==
    [NoReturn EXCEPT !.file_path = file_path, !.action_taken = "skipped"]

\* What validate_file gave for the file: "raised" is an exception out of it,
\* "mismatch" a valid result for a file whose name does not fit its title.
ValidationResultOf(outcome) ==
    IF outcome \in {"valid", "mismatch"}
    THEN [valid |-> TRUE, errors |-> << >>, timed_out |-> FALSE]
    ELSE IF outcome = "timeout"
    THEN [valid |-> FALSE, errors |-> << "timed out" >>, timed_out |-> TRUE]
    ELSE [valid |-> FALSE, errors |-> << "invalid" >>, timed_out |-> FALSE]

\* A detector that never flags a file.
detect_path_mismatch_never(item, outcome) == FALSE

\* reports.detect_path_mismatch: only an item with a folder path (Radarr
\* items have one) can be flagged.
detect_path_mismatch(item, outcome) ==
    outcome = "mismatch" /\ item.arr_type = RADARR

\* validate_and_process, lines 108-131: the verdict after the mismatch check.
ScanVerdict(item, outcome) ==
    LET result == ValidationResultOf(outcome)
    IN  IF result.valid /\ detect_path_mismatch(item, outcome)
        THEN [valid |-> FALSE, errors |-> Append(result.errors, "wrong file")]
        ELSE [valid |-> result.valid, errors |-> result.errors]

Return(t, action_taken, marked, deleted, searched) ==
    [file_path |-> t.file_path, outcome |-> t.outcome,
     action_taken |-> action_taken, marked |-> marked, deleted |-> deleted,
     searched |-> searched,
     errors |-> IF t.outcome = "raised" THEN << >>
                ELSE ScanVerdict(t.item, t.outcome).errors]

\* A Radarr/Sonarr import webhook for file i (_handle_arr_webhook): the file
\* is in place, the item goes into the cache, the validation is queued as a
\* background task.
Webhook(i, hasEpId) ==
    LET v == FreeOf(vtask)
        item == WebhookItem(i, hasEpId)
    IN  /\ v # 0
        /\ hasEpId \/ ArrTypeOf(i) = SONARR
        /\ files' = files \cup {i}
        /\ media_cache' = Put(media_cache, item.file_path, item)
        /\ media_cache_by_instance' = PutInstance(media_cache_by_instance, item)
        /\ vtask' = [vtask EXCEPT ![v] = [IdleV EXCEPT !.pc = "queued",
                                                       !.file_path = item.file_path]]
        /\ UNCHANGED << results, val, config, today, state, state_file, scan_queue, last_full_refresh,
                        initial_scan_complete, refresh_status, radarr_clients,
                        sonarr_clients, initialized, replacements_today,
                        replacement_reset_date, rtask, bgtask, requests,
                        deleted_on, returned >>

\* The queued background task starts validate_and_process.
V_Start(v) ==
    LET t == StartValidation(vtask[v].file_path, 0, files, media_cache,
                             media_cache_by_instance, radarr_clients,
                             sonarr_clients)
    IN  /\ vtask[v].pc = "queued"
        /\ vtask' = [vtask EXCEPT ![v] = t]
        /\ returned' = IF t.pc = "done" THEN Skipped(vtask[v].file_path)
                       ELSE returned
        /\ UNCHANGED << results, val, config, today, files, state, state_file, scan_queue,
                        last_full_refresh, initial_scan_complete, refresh_status,
                        media_cache, media_cache_by_instance, radarr_clients,
                        sonarr_clients, initialized, replacements_today,
                        replacement_reset_date, rtask, bgtask, requests,
                        deleted_on >>

Outcomes == {"valid", "mismatch", "invalid", "timeout", "raised"}

\* A failed replacement that leaves the store as it is.
ReplaceFailedUnmarked(st, t) == st

\* validate_and_process after _replace_file returned False (lines 158-161).
ReplaceFailed(st, t) == mark_scanned(st, t.file_path, FALSE, MediaType(t.item))

\* An exception that leaves run_background_scan: its task ends with the
\* rest of the batch unprocessed.
AfterRaisePropagates(bg, v) ==
    [b \in DOMAIN bg |->
        IF bg[b].pc = "validating" /\ bg[b].vid = v
        THEN [IdleB EXCEPT !.pc = "done", !.initial_done = bg[b].initial_done]
        ELSE bg[b]]

\* An exception out of validate_and_process call v reaches its caller: the
\* except clause of the batch loop (janitor.py:245-246) logs it and the loop
\* goes on to its sleep; the runner of a webhook's background task drops it.
AfterRaise(bg, v) == bg

\* validate_file has returned (lines 93-152).  outcome: the validator's
\* verdict - "timeout" is valid = false with timed_out = true, "mismatch" is
\* a valid file that detect_path_mismatch flags (only items with a folder
\* path, the movies, can be flagged).
V_Validated(v, outcome) ==
    LET t == [vtask[v] EXCEPT !.outcome = outcome]
        media_type == MediaType(t.item)
        rl == check_rate_limit(replacements_today, replacement_reset_date, today,
                               config.max_replacements_per_day)
    IN  /\ vtask[v].pc = "validate"
        /\ outcome \in Outcomes
        /\ outcome = "mismatch" => t.item.arr_type = RADARR
        /\ IF outcome = "raised"
           THEN /\ vtask' = [vtask EXCEPT ![v] = DoneV]
                /\ returned' = Return(t, "raised", "no", FALSE, FALSE)
                /\ UNCHANGED << state, state_file, replacements_today,
                                replacement_reset_date, requests, results >>
           ELSE IF ScanVerdict(t.item, outcome).valid
           THEN /\ state' = mark_scanned(state, t.file_path, TRUE, media_type)
                /\ state_file' = FileAfterMarkScanned(state_file, state')
                /\ vtask' = [vtask EXCEPT ![v] = DoneV]
                /\ returned' = Return(t, "valid", "valid", FALSE, FALSE)
                /\ results' = results + 1
                /\ UNCHANGED << replacements_today, replacement_reset_date, requests >>
           ELSE IF ~config.auto_replace
           THEN /\ state' = mark_scanned(state, t.file_path, FALSE, media_type)
                /\ state_file' = FileAfterMarkScanned(state_file, state')
                /\ vtask' = [vtask EXCEPT ![v] = DoneV]
                /\ returned' = Return(t, "flagged", "invalid", FALSE, FALSE)
                /\ results' = results + 1
                /\ UNCHANGED << replacements_today, replacement_reset_date, requests >>
           ELSE /\ replacements_today' = rl.count
                /\ replacement_reset_date' = rl.date
                /\ IF ~rl.ok
                   THEN /\ vtask' = [vtask EXCEPT ![v] = DoneV]
                        /\ returned' = Return(t, "queued", "no", FALSE, FALSE)
                        /\ results' = results + 1
                        /\ UNCHANGED << state, state_file, requests >>
                   ELSE IF DeletionKey(t.item) = None
                   THEN /\ state' = ReplaceFailed(state, t)
                        /\ state_file' = FileAfterMarkScanned(state_file, state')
                        /\ vtask' = [vtask EXCEPT ![v] = DoneV]
                        /\ returned' = Return(t, "flagged", "invalid", FALSE, FALSE)
                        /\ results' = results + 1
                        /\ UNCHANGED requests
                   ELSE /\ requests' = requests \cup
                               {[req |-> DeleteRequest(ClientArrType(t.client),
                                                       DeletionKey(t.item)),
                                 item |-> t.item]}
                        /\ vtask' = [vtask EXCEPT ![v] = [t EXCEPT !.pc = "delete"]]
                        /\ UNCHANGED << state, state_file, returned, results >>
        /\ bgtask' = IF outcome = "raised" THEN AfterRaise(bgtask, v) ELSE bgtask
        /\ UNCHANGED << val, config, today, files, scan_queue, last_full_refresh,
                        initial_scan_complete, refresh_status, media_cache,
                        media_cache_by_instance, radarr_clients, sonarr_clients,
                        initialized, rtask, deleted_on >>

\* The file the remote catalog removes for a delete request.
DeleteTarget(req, held) ==
    {i \in held : /\ FileId(i) = req.key
                  /\ req.endpoint = (IF ArrTypeOf(i) = RADARR THEN "moviefile"
                                                              ELSE "episodefile")}

\* client.delete_file has returned (lines 181-195): ok = FALSE is a failed
\* request, which aborts the replacement; else the search is requested.
V_Deleted(v, ok) ==
    LET t == vtask[v]
        req == DeleteRequest(ClientArrType(t.client), DeletionKey(t.item))
        target == DeleteTarget(req, files)
    IN  /\ t.pc = "delete"
        /\ ok => target # {}
        /\ IF ok
           THEN /\ files' = files \ target
                /\ deleted_on' = [deleted_on EXCEPT ![today] = @ + 1]
                /\ vtask' = [vtask EXCEPT ![v].pc = "search"]
                /\ UNCHANGED << state, state_file, returned, results >>
           ELSE /\ state' = ReplaceFailed(state, t)
                /\ state_file' = FileAfterMarkScanned(state_file, state')
                /\ vtask' = [vtask EXCEPT ![v] = DoneV]
                /\ returned' = Return(t, "flagged", "invalid", FALSE, FALSE)
                /\ results' = results + 1
                /\ UNCHANGED << files, deleted_on >>
        /\ UNCHANGED << val, config, today, scan_queue, last_full_refresh,
                        initial_scan_complete, refresh_status, media_cache,
                        media_cache_by_instance, radarr_clients, sonarr_clients,
                        initialized, replacements_today, replacement_reset_date,
                        rtask, bgtask, requests >>

\* client.search_for_replacement has returned (lines 195-202, 153-164).
\* reached = FALSE: the call failed before its keyed request; found: the
\* outcome of the episode lookup by coordinates.  Either way the file counts
\* as replaced.
V_Searched(v, reached, found) ==
    LET t == vtask[v]
        req == SearchRequest(ClientArrType(t.client), t.item, found)
        sent == reached /\ req.key # None
    IN  /\ t.pc = "search"
        /\ requests' = IF sent THEN requests \cup {[req |-> req, item |-> t.item]}
                       ELSE requests
        /\ replacements_today' = increment_replacement_count(replacements_today)
        /\ state' = mark_replaced(state, t.file_path, FALSE, "unknown")
        /\ state_file' = Written(state')
        /\ vtask' = [vtask EXCEPT ![v] = DoneV]
        /\ returned' = Return(t, "replaced", "no", TRUE, sent)
        /\ results' = results + 1
        /\ UNCHANGED << val, config, today, files, scan_queue, last_full_refresh,
                        initial_scan_complete, refresh_status, media_cache,
                        media_cache_by_instance, radarr_clients, sonarr_clients,
                        initialized, replacement_reset_date, rtask, bgtask,
                        deleted_on >>

\* The wall clock passes midnight.
Tick ==
    /\ today < MaxDay
    /\ today' = today + 1
    /\ UNCHANGED << results, val, config, files, state, state_file, scan_queue, last_full_refresh,
                    initial_scan_complete, refresh_status, media_cache,
                    media_cache_by_instance, radarr_clients, sonarr_clients,
                    initialized, replacements_today, replacement_reset_date,
                    vtask, rtask, bgtask, requests, deleted_on, returned >>

\* ------------------------------------------- janitor.py: the batch loop
\* run_background_scan, lines 239-249: the loop is at `batch`; it calls
\* validate_and_process for the next item, or ends.
BgLoop(b, batch, bg0, vt0, held, cache, by_instance) ==
    IF batch = << >>
    THEN /\ bgtask' = [bg0 EXCEPT ![b] = [IdleB EXCEPT !.pc = "done",
                                             !.initial_done = bg0[b].initial_done]]
         /\ vtask' = vt0
         /\ UNCHANGED returned
    ELSE LET v == FreeOf(vt0)
             t == StartValidation(Head(batch).file_path, b, held, cache,
                                  by_instance, radarr_clients, sonarr_clients)
         IN  /\ v # 0
             /\ vtask' = [vt0 EXCEPT ![v] = t]
             /\ returned' = IF t.pc = "done" THEN Skipped(Head(batch).file_path)
                            ELSE returned
             /\ bgtask' = [bg0 EXCEPT ![b].pc = "validating",
                                      ![b].batch = Tail(batch), ![b].vid = v]

\* run_background_scan, lines 232-237: get_next_batch on queue q, then the loop.
BgBatch(b, q, bg0, vt0, held, cache, by_instance) ==
    /\ scan_queue' = Drop(q, BatchSize)
    /\ BgLoop(b, Take(q, BatchSize), bg0, vt0, held, cache, by_instance)

\* ------------------------------------------- scanner.py: refresh_library
\* Lines 151-287, run without suspension once the last fetch has returned:
\* totals, the queue, the two caches, the finally block; then the caller
\* (run_background_scan, if it awaited this refresh) goes on.
RefreshFinish(r, rec, st, complete, bg0, vt0) ==
    LET st1 == RefreshTotals(rec.source, st, rec.movies_total, rec.tv_total)
        new_items == NewItems(rec.all_media, get_scanned_paths(st1))
        count == Len(new_items)
        cache == FlatCache(rec.all_media)
        by_instance == InstanceCache(rec.all_media)
        st2 == IF ~complete /\ count > 0 THEN mark_scan_started(st1, today) ELSE st1
    IN  \E movies \in Shuffles(OfType(new_items, RADARR)),
           tv \in Shuffles(OfType(new_items, SONARR)) :
          LET q == BuildQueue(rec.source, movies, tv, scan_queue)
          IN  /\ state' = st2
              /\ state_file' = Written(st2)
              /\ last_full_refresh' =
                     IF rec.source = "all" THEN today ELSE last_full_refresh
              /\ media_cache' = cache
              /\ media_cache_by_instance' = by_instance
              /\ refresh_status' = NoRefresh
              /\ rtask' = [rtask EXCEPT ![r] =
                              [IdleR EXCEPT !.pc = "done", !.source = rec.source,
                                            !.count = count]]
              /\ IF rec.owner = 0
                 THEN /\ scan_queue' = q
                      /\ bgtask' = bg0
                      /\ vtask' = vt0
                      /\ UNCHANGED returned
                 ELSE IF count = 0
                 THEN /\ scan_queue' = q
                      /\ bgtask' = [bg0 EXCEPT ![rec.owner] =
                                       [IdleB EXCEPT !.pc = "done",
                                           !.initial_done = bg0[rec.owner].initial_done]]
                      /\ vtask' = vt0
                      /\ UNCHANGED returned
                 ELSE BgBatch(rec.owner, q, bg0, vt0, files, cache, by_instance)

\* The only store call before a refresh is mark_scan_completed, made by
\* check_initial_scan_complete when it turns the flag on (scanner.py:354):
\* it stamps a store that had no stamp, and writes it.
FileAfterCheck(file, st0, st) == IF st = st0 THEN file ELSE Written(st)

\* The refresh waits for get_all_media of the next client (lines 130-149).
RefreshSuspend(r, rec, st, bg0, vt0, rs0) ==
    /\ rtask' = [rtask EXCEPT ![r] = rec]
    /\ refresh_status' = [rs0 EXCEPT !.refresh_current_instance = Head(rec.pending)]
    /\ state' = st
    /\ state_file' = FileAfterCheck(state_file, state, st)
    /\ bgtask' = bg0
    /\ vtask' = vt0
    /\ UNCHANGED << scan_queue, last_full_refresh, media_cache,
                    media_cache_by_instance, returned >>

RefreshRun(r, rec, st, complete, bg0, vt0, rs0) ==
    IF rec.pending = << >>
    THEN RefreshFinish(r, rec, st, complete, bg0, vt0)
    ELSE RefreshSuspend(r, rec, st, bg0, vt0, rs0)

\* refresh_library is called (lines 120-130).
StartRefresh(source, owner, st, complete, bg0, vt0, radarr, sonarr) ==
    LET r == FreeOf(rtask)
        pending == (IF source \in {"all", "movies"} THEN radarr ELSE << >>)
                   \o (IF source \in {"all", "tv"} THEN sonarr ELSE << >>)
        rec == [IdleR EXCEPT !.pc = "fetching", !.source = source,
                             !.owner = owner, !.pending = pending]
        rs0 == [refreshing |-> TRUE, refresh_source |-> source,
                refresh_phase |-> "fetching", refresh_current_instance |-> "none"]
    IN  /\ r # 0
        /\ RefreshRun(r, rec, st, complete, bg0, vt0, rs0)

\* A file record without "id" in the remote answer: the item's file_id is None.
RECURSIVE WithoutFileIds(_)
WithoutFileIds(media) ==
    IF media = << >> THEN << >>
    ELSE << [Head(media) EXCEPT !.file_id = None] >> \o WithoutFileIds(Tail(media))

\* client.get_all_media has returned or raised (ok = FALSE) for the client
\* the refresh was waiting for; bare: the answer's file records carry no id.
FetchedWith(r, ok, bare) ==
    LET rec0 == rtask[r]
        instance == Head(rec0.pending)
        held == MediaFrom(instance, files, 1)
        media == IF bare THEN WithoutFileIds(held) ELSE held
        rec == IF ok
               THEN [rec0 EXCEPT
                       !.pending = Tail(@),
                       !.all_media = @ \o media,
                       !.movies_total = IF ClientArrType(instance) = RADARR
                                        THEN @ + Len(media) ELSE @,
                       !.tv_total = IF ClientArrType(instance) = SONARR
                                    THEN @ + Len(media) ELSE @]
               ELSE [rec0 EXCEPT !.pending = Tail(@)]
    IN  /\ rec0.pc = "fetching"
        /\ RefreshRun(r, rec, state, initial_scan_complete, bgtask, vtask,
                      refresh_status)
        /\ UNCHANGED << results, val, config, today, files, initial_scan_complete, radarr_clients,
                        sonarr_clients, initialized, replacements_today,
                        replacement_reset_date, requests, deleted_on >>

R_Fetched(r, ok) == FetchedWith(r, ok, FALSE)

R_FetchedBare(r) == FetchedWith(r, TRUE, TRUE)

\* POST /scan/refresh (webhook.py) and Janitor.refresh_tv_library.
Refresh(source) ==
    /\ StartRefresh(source, 0, state, initial_scan_complete, bgtask, vtask,
                    radarr_clients, sonarr_clients)
    /\ UNCHANGED << results, val, config, today, files, initial_scan_complete, radarr_clients,
                    sonarr_clients, initialized, replacements_today,
                    replacement_reset_date, requests, deleted_on >>

\* Janitor.initialize: Scanner.initialize connects the clients, then the
\* startup refresh of both libraries begins.
Initialize ==
    /\ ~initialized
    /\ initialized' = TRUE
    /\ radarr_clients' = << RADARR >>
    /\ sonarr_clients' = << SONARR >>
    /\ StartRefresh("all", 0, state, initial_scan_complete, bgtask, vtask,
                    << RADARR >>, << SONARR >>)
    /\ UNCHANGED << results, val, config, today, files, initial_scan_complete,
                    replacements_today, replacement_reset_date, requests,
                    deleted_on >>

\* Janitor.run_background_scan is called (lines 204-237).
BG_Start ==
    LET b == FreeOf(bgtask)
        chk == check_initial_scan_complete(initial_scan_complete, scan_queue,
                                           last_full_refresh, state, today)
        bg1 == [bgtask EXCEPT ![b].initial_done = chk.ret]
    IN  /\ b # 0
        /\ initial_scan_complete' = chk.complete
        /\ IF config.mode = "watch_only" /\ chk.ret
           THEN /\ bgtask' = [bg1 EXCEPT ![b].pc = "done"]
                /\ state' = chk.state
                /\ state_file' = FileAfterCheck(state_file, state, chk.state)
                /\ UNCHANGED << scan_queue, last_full_refresh, media_cache,
                                media_cache_by_instance, refresh_status, rtask,
                                vtask, returned >>
           ELSE IF Len(scan_queue) = 0
           THEN StartRefresh("all", b, chk.state, chk.complete,
                             [bg1 EXCEPT ![b].pc = "refresh"], vtask,
                             radarr_clients, sonarr_clients)
           ELSE /\ state' = chk.state
                /\ state_file' = FileAfterCheck(state_file, state, chk.state)
                /\ BgBatch(b, scan_queue, bg1, vtask, files, media_cache,
                           media_cache_by_instance)
                /\ UNCHANGED << last_full_refresh, media_cache,
                                media_cache_by_instance, refresh_status, rtask >>
        /\ UNCHANGED << results, val, config, today, files, radarr_clients, sonarr_clients,
                        initialized, replacements_today, replacement_reset_date,
                        requests, deleted_on >>

\* run_background_scan wakes from the sleep after an item (lines 244-249).
BG_Continue(b) ==
    /\ bgtask[b].pc = "validating"
    /\ vtask[bgtask[b].vid].pc = "done"
    /\ BgLoop(b, bgtask[b].batch, bgtask, vtask, files, media_cache,
              media_cache_by_instance)
    /\ UNCHANGED << results, val, config, today, files, state, state_file, scan_queue, last_full_refresh,
                    initial_scan_complete, refresh_status, media_cache,
                    media_cache_by_instance, radarr_clients, sonarr_clients,
                    initialized, replacements_today, replacement_reset_date,
                    rtask, requests, deleted_on >>

\* ------------------------------------------- validation.py: one validation
OtherThanVal ==
    << config, today, files, state, state_file, scan_queue, last_full_refresh,
       initial_scan_complete, refresh_status, media_cache,
       media_cache_by_instance, radarr_clients, sonarr_clients, initialized,
       replacements_today, replacement_reset_date, vtask, rtask, bgtask,
       requests, deleted_on, returned, results >>

\* validate_file is called and waits for run_ffprobe.
Val_Start ==
    /\ val.pc = "idle"
    /\ val' = [val EXCEPT !.pc = "probe"]
    /\ UNCHANGED OtherThanVal

\* run_ffprobe has returned; validate_file runs on to its first decode test,
\* to its return, or to the exception of line 339.
Val_Probed(success) ==
    /\ val.pc = "probe"
    /\ val' = AfterProbe(val, success)
    /\ UNCHANGED OtherThanVal

\* run_ffmpeg_decode_test has returned for the sample validate_file waits for.
Val_Decoded(raw) ==
    /\ val.pc \in {"start", "middle", "end", "full"}
    /\ val' = AfterDecode(val, raw)
    /\ UNCHANGED OtherThanVal

NextValidator ==
    \/ Val_Start
    \/ \E success \in BOOLEAN : Val_Probed(success)
    \/ \E raw \in RawDecodes : Val_Decoded(raw)

\* validate_file on its own: any config object, any file.
InitValidator ==
    /\ InitService
    /\ config.mode = "watch_only" /\ config.auto_replace /\ ~config.dry_run
    /\ \E cfg \in ValidationConfigs, detected_3d \in BOOLEAN,
          low_bitrate \in BOOLEAN, duration \in Durations :
          val = [NoValidation EXCEPT !.cfg = cfg, !.detected_3d = detected_3d,
                                     !.low_bitrate = low_bitrate,
                                     !.duration = duration]

SpecValidator == InitValidator /\ [][NextValidator]_vars

\* ------------------------------------ scanner.py: several instances per kind
\* config.radarr and config.sonarr are lists: a second instance of each kind
\* holds the same files under the same paths.
RADARR4K == "radarr4k"
SONARR4K == "sonarr4k"
Instances == {RADARR, RADARR4K, SONARR, SONARR4K}
InstanceType(instance) ==
    IF instance \in {RADARR, RADARR4K} THEN RADARR ELSE SONARR

\* The MediaItem an instance builds for file i: its own instance name and its
\* own file id.
InstanceItem(instance, i) ==
    [CatalogItem(i) EXCEPT !.arr_instance = instance,
                           !.file_id = IF instance \in {RADARR4K, SONARR4K}
                                       THEN @ + 100 ELSE @]

RECURSIVE InstanceMedia(_, _)
InstanceMedia(instance, i) ==
    IF i > NumItems THEN << >>
    ELSE (IF ArrTypeOf(i) = InstanceType(instance)
          THEN << InstanceItem(instance, i) >> ELSE << >>)
         \o InstanceMedia(instance, i + 1)

\* all_media of a refresh: the clients in order, a failed fetch adds nothing.
RECURSIVE FetchedMedia(_, _)
FetchedMedia(clients, ok) ==
    IF clients = << >> THEN << >>
    ELSE (IF Head(clients) \in ok THEN InstanceMedia(Head(clients), 1) ELSE << >>)
         \o FetchedMedia(Tail(clients), ok)

\* The clients that answered test_connection, in the order of the config.
Connected(first, second) ==
    {<< >>, << first >>, << second >>, << first, second >>}

\* Scanner.add_to_cache for an item an instance reports.
AddToCache(instance, i) ==
    LET item == InstanceItem(instance, i)
    IN  /\ ArrTypeOf(i) = InstanceType(instance)
        /\ media_cache' = Put(media_cache, item.file_path, item)
        /\ media_cache_by_instance' = PutInstance(media_cache_by_instance, item)
        /\ UNCHANGED << results, val, config, today, files, state, state_file, scan_queue,
                        last_full_refresh, initial_scan_complete, refresh_status,
                        radarr_clients, sonarr_clients, initialized,
                        replacements_today, replacement_reset_date, vtask, rtask,
                        bgtask, requests, deleted_on, returned >>

\* One call of Scanner.find_item_by_path; the first coroutine slot keeps what
\* it returned.
Lookup(i) ==
    LET f == find_item_by_path(PathOf(i), media_cache, media_cache_by_instance,
                               radarr_clients, sonarr_clients)
    IN  /\ vtask' = [vtask EXCEPT ![1] =
                        [IdleV EXCEPT !.pc = IF f.item = NoItem THEN "missed"
                                             ELSE "found",
                                      !.file_path = PathOf(i),
                                      !.item = f.item, !.client = f.client]]
        /\ UNCHANGED << results, val, config, today, files, state, state_file, scan_queue,
                        last_full_refresh, initial_scan_complete, refresh_status,
                        media_cache, media_cache_by_instance, radarr_clients,
                        sonarr_clients, initialized, replacements_today,
                        replacement_reset_date, rtask, bgtask, requests,
                        deleted_on, returned >>

NextLookup ==
    \/ \E instance \in Instances, i \in ItemIds : AddToCache(instance, i)
    \/ \E i \in ItemIds : Lookup(i)

\* find_item_by_path on its own: any connected clients, the caches of a
\* refresh in which any of them answered.
InitLookup ==
    /\ config \in Configs
    /\ config.mode = "watch_only" /\ config.auto_replace /\ ~config.dry_run
    /\ today = 1
    /\ files = ItemIds
    /\ state = InitState
    /\ state_file = NoFile
    /\ scan_queue = << >>
    /\ last_full_refresh = None
    /\ initial_scan_complete = get_stats(InitState).initial_scan_done
    /\ refresh_status = NoRefresh
    /\ radarr_clients \in Connected(RADARR, RADARR4K)
    /\ sonarr_clients \in Connected(SONARR, SONARR4K)
    /\ \E ok \in SUBSET Instances :
          LET all_media == FetchedMedia(radarr_clients \o sonarr_clients, ok)
          IN  /\ media_cache = FlatCache(all_media)
              /\ media_cache_by_instance = InstanceCache(all_media)
    /\ initialized = TRUE
    /\ replacements_today = 0
    /\ replacement_reset_date = 1
    /\ vtask = [v \in VIds |-> IdleV]
    /\ rtask = [r \in RIds |-> IdleR]
    /\ bgtask = [b \in BIds |-> IdleB]
    /\ requests = {}
    /\ deleted_on = [d \in Days |-> 0]
    /\ returned = NoReturn
    /\ results = 0
    /\ val = NoValidation

SpecLookup == InitLookup /\ [][NextLookup]_vars

Next ==
    \/ \E i \in ItemIds, hasEpId \in BOOLEAN : Webhook(i, hasEpId)
    \/ \E v \in VIds : V_Start(v)
    \/ \E v \in VIds, outcome \in Outcomes : V_Validated(v, outcome)
    \/ \E v \in VIds, ok \in BOOLEAN : V_Deleted(v, ok)
    \/ \E v \in VIds, reached \in BOOLEAN, found \in BOOLEAN :
          V_Searched(v, reached, found)
    \/ \E r \in RIds, ok \in BOOLEAN : R_Fetched(r, ok)
    \/ \E r \in RIds : R_FetchedBare(r)
    \/ \E source \in Sources : Refresh(source)
    \/ Initialize
    \/ BG_Start
    \/ \E b \in BIds : BG_Continue(b)
    \/ Tick
    \/ Val_Start
    \/ \E success \in BOOLEAN : Val_Probed(success)
    \/ \E raw \in RawDecodes : Val_Decoded(raw)

Spec == Init /\ [][Next]_vars

\* The orchestrator alone: the startup refresh fills the cache, imports
\* arrive as webhooks, validations run concurrently.
NextJanitor ==
    \/ \E i \in ItemIds, hasEpId \in BOOLEAN : Webhook(i, hasEpId)
    \/ \E v \in VIds : V_Start(v)
    \/ \E v \in VIds, outcome \in Outcomes : V_Validated(v, outcome)
    \/ \E v \in VIds, ok \in BOOLEAN : V_Deleted(v, ok)
    \/ \E v \in VIds, reached \in BOOLEAN, found \in BOOLEAN :
          V_Searched(v, reached, found)
    \/ \E r \in RIds, ok \in BOOLEAN : R_Fetched(r, ok)
    \/ Initialize
    \/ Tick

InitJanitor == Init /\ config.mode = "watch_only"

SpecJanitor == InitJanitor /\ [][NextJanitor]_vars

\* The scanner with validation in report-only configuration (auto_replace
\* off): refreshes from every caller, the batch loop, imports by webhook.
NextScanner ==
    \/ \E i \in ItemIds, hasEpId \in BOOLEAN : Webhook(i, hasEpId)
    \/ \E v \in VIds : V_Start(v)
    \/ \E v \in VIds, outcome \in Outcomes : V_Validated(v, outcome)
    \/ \E r \in RIds, ok \in BOOLEAN : R_Fetched(r, ok)
    \/ \E source \in Sources : Refresh(source)
    \/ Initialize
    \/ BG_Start
    \/ \E b \in BIds : BG_Continue(b)

InitScanner == Init /\ ~config.auto_replace /\ ~config.dry_run

SpecScanner == InitScanner /\ [][NextScanner]_vars

\* The service from an empty library in the default scan mode: imports arrive
\* by webhook, invalid files are replaced within the daily budget, the
\* background scan is run again and again; every remote request succeeds.
NextDeferral ==
    \/ \E i \in ItemIds : Webhook(i, TRUE)
    \/ \E v \in VIds : V_Start(v)
    \/ \E v \in VIds, outcome \in {"valid", "invalid"} : V_Validated(v, outcome)
    \/ \E v \in VIds : V_Deleted(v, TRUE)
    \/ \E v \in VIds : V_Searched(v, TRUE, TRUE)
    \/ \E r \in RIds : R_Fetched(r, TRUE)
    \/ Initialize
    \/ BG_Start
    \/ \E b \in BIds : BG_Continue(b)
    \/ Tick

InitDeferral ==
    /\ config \in Configs
    /\ config.auto_replace /\ ~config.dry_run /\ config.mode = "watch_only"
    /\ today = 1
    /\ files = {}
    /\ state = InitState
    /\ state_file = NoFile
    /\ scan_queue = << >>
    /\ last_full_refresh = None
    /\ initial_scan_complete = get_stats(InitState).initial_scan_done
    /\ refresh_status = NoRefresh
    /\ media_cache = << >>
    /\ media_cache_by_instance = << >>
    /\ radarr_clients = << >>
    /\ sonarr_clients = << >>
    /\ initialized = FALSE
    /\ replacements_today = 0
    /\ replacement_reset_date = 1
    /\ vtask = [v \in VIds |-> IdleV]
    /\ rtask = [r \in RIds |-> IdleR]
    /\ bgtask = [b \in BIds |-> IdleB]
    /\ requests = {}
    /\ deleted_on = [d \in Days |-> 0]
    /\ returned = NoReturn
    /\ results = 0
    /\ val = NoValidation

SpecDeferral == InitDeferral /\ [][NextDeferral]_vars

\* Replacements with auto-replace on, over a library whose remote answers
\* may lack file ids.
NextReplace ==
    \/ \E i \in ItemIds : Webhook(i, TRUE)
    \/ \E v \in VIds : V_Start(v)
    \/ \E v \in VIds, outcome \in {"valid", "invalid", "timeout"} :
          V_Validated(v, outcome)
    \/ \E v \in VIds, ok \in BOOLEAN : V_Deleted(v, ok)
    \/ \E v \in VIds, reached \in BOOLEAN : V_Searched(v, reached, TRUE)
    \/ \E r \in RIds : R_Fetched(r, TRUE)
    \/ \E r \in RIds : R_FetchedBare(r)
    \/ Initialize
    \/ Tick

InitReplace ==
    Init /\ config.auto_replace /\ ~config.dry_run /\ config.mode = "watch_only"

SpecReplace == InitReplace /\ [][NextReplace]_vars

\* The state store alone: its marking operations applied in any order to
\* any path, from the empty store.
StoreMarkScanned(file_path, valid, media_type) ==
    /\ state.total_scanned + state.total_replaced < MaxStoreCalls
    /\ state' = mark_scanned(state, file_path, valid, media_type)
    /\ state_file' = FileAfterMarkScanned(state_file, state')
    /\ returned' = [NoReturn EXCEPT !.file_path = file_path,
                                    !.action_taken = "scanned"]
    /\ UNCHANGED << results, val, config, today, files, scan_queue, last_full_refresh,
                    initial_scan_complete, refresh_status, media_cache,
                    media_cache_by_instance, radarr_clients, sonarr_clients,
                    initialized, replacements_today, replacement_reset_date,
                    vtask, rtask, bgtask, requests, deleted_on >>

StoreMarkReplaced(file_path, wrong_file, media_type) ==
    /\ state.total_scanned + state.total_replaced < MaxStoreCalls
    /\ state' = mark_replaced(state, file_path, wrong_file, media_type)
    /\ state_file' = Written(state')
    /\ returned' = [NoReturn EXCEPT !.file_path = file_path,
                                    !.action_taken = "replaced"]
    /\ UNCHANGED << results, val, config, today, files, scan_queue, last_full_refresh,
                    initial_scan_complete, refresh_status, media_cache,
                    media_cache_by_instance, radarr_clients, sonarr_clients,
                    initialized, replacements_today, replacement_reset_date,
                    vtask, rtask, bgtask, requests, deleted_on >>

MediaTypes == {"movie", "tv", "unknown"}

Paths == {PathOf(i) : i \in ItemIds}

NextStore ==
    \/ \E file_path \in Paths, valid \in BOOLEAN, media_type \in MediaTypes :
          StoreMarkScanned(file_path, valid, media_type)
    \/ \E file_path \in Paths, wrong_file \in BOOLEAN, media_type \in MediaTypes :
          StoreMarkReplaced(file_path, wrong_file, media_type)

InitStore == Init /\ config.mode = "watch_only" /\ config.auto_replace
                  /\ ~config.dry_run

SpecStore == InitStore /\ [][NextStore]_vars

\* The state store with all its writing operations.  `returned` tells the
\* call made last, the first refresh slot the totals a refresh handed over.
StoreFrame ==
    UNCHANGED << results, val, config, today, files, scan_queue, last_full_refresh,
                 initial_scan_complete, refresh_status, media_cache,
                 media_cache_by_instance, radarr_clients, sonarr_clients,
                 initialized, replacements_today, replacement_reset_date,
                 vtask, bgtask, requests, deleted_on >>

\* StateManager.clear: the fresh dict.
clear(st) == InitState

\* refresh_library of the source stores the totals it counted (lines 151-161);
\* source "all" is set_library_totals(movies_total, tv_total) itself.
StoreSetTotals(source, movies_total, tv_total) ==
    /\ state' = RefreshTotals(source, state, movies_total, tv_total)
    /\ state_file' = Written(state')
    /\ rtask' = [rtask EXCEPT ![1] =
                    [IdleR EXCEPT !.pc = "done", !.source = source,
                                  !.movies_total = movies_total,
                                  !.tv_total = tv_total]]
    /\ returned' = [NoReturn EXCEPT !.action_taken = "set_library_totals"]
    /\ StoreFrame

StoreScanStarted ==
    /\ state' = mark_scan_started(state, today)
    /\ state_file' = Written(state')
    /\ returned' = [NoReturn EXCEPT !.action_taken = "scan_started"]
    /\ UNCHANGED rtask
    /\ StoreFrame

StoreScanCompleted ==
    /\ state' = mark_scan_completed(state, today)
    /\ state_file' = Written(state')
    /\ returned' = [NoReturn EXCEPT !.action_taken = "scan_completed"]
    /\ UNCHANGED rtask
    /\ StoreFrame

StoreClear ==
    /\ state' = clear(state)
    /\ state_file' = Written(state')
    /\ returned' = [NoReturn EXCEPT !.action_taken = "clear"]
    /\ UNCHANGED rtask
    /\ StoreFrame

\* Library sizes a refresh may count.
MovieTotals == {0, 1}
TvTotals == {0, 2}

NextTotals ==
    \/ \E file_path \in Paths, valid \in BOOLEAN :
          StoreMarkScanned(file_path, valid, PathMediaType(file_path))
    \/ \E file_path \in Paths :
          StoreMarkReplaced(file_path, FALSE, "unknown")
    \/ \E source \in Sources, movies_total \in MovieTotals,
          tv_total \in TvTotals :
          StoreSetTotals(source, movies_total, tv_total)
    \/ StoreScanStarted
    \/ StoreScanCompleted
    \/ StoreClear

SpecTotals == InitStore /\ [][NextTotals]_vars

\* The queue construction alone: refresh_library of source "all" over
\* fetched lists of any length, nothing scanned yet.
MaxMovies == 3
MaxEpisodes == 32

QueueItem(arr_type, n) ==
    [NoItem EXCEPT !.id = n, !.file_path = n, !.file_id = n,
                   !.arr_type = arr_type, !.arr_instance = arr_type]

MovieList(m) == [k \in 1 .. m |-> QueueItem(RADARR, k)]
EpisodeList(n) == [k \in 1 .. n |-> QueueItem(SONARR, 100 + k)]

\* Lines 172-221 with the lists kept in fetched order.
QueueBuilt(m, n) ==
    /\ rtask' = [rtask EXCEPT ![1] =
                    [IdleR EXCEPT !.pc = "done", !.source = "all",
                                  !.all_media = MovieList(m) \o EpisodeList(n),
                                  !.movies_total = m, !.tv_total = n,
                                  !.count = m + n]]
    /\ scan_queue' = BuildQueue("all", OfType(MovieList(m) \o EpisodeList(n), RADARR),
                                OfType(MovieList(m) \o EpisodeList(n), SONARR),
                                scan_queue)
    /\ UNCHANGED << results, val, config, today, files, state, state_file, last_full_refresh,
                    initial_scan_complete, refresh_status, media_cache,
                    media_cache_by_instance, radarr_clients, sonarr_clients,
                    initialized, replacements_today, replacement_reset_date,
                    vtask, bgtask, requests, deleted_on, returned >>

NextInterleave ==
    \E m \in 0 .. MaxMovies, n \in 0 .. MaxEpisodes : QueueBuilt(m, n)

SpecInterleave == InitStore /\ [][NextInterleave]_vars

\* refresh_library of a Scanner that was given a Plex client (lines 24-28),
\* over catalogs of several movies and episodes: the step up to the await
\* of get_watch_history (line 180), and the step from its return.
MaxWatchMovies == 2
MaxWatchEpisodes == 2
MaxViews == 1
WatchPaths == {k : k \in 1 .. MaxWatchMovies} \union {100 + k : k \in 1 .. MaxWatchEpisodes}
MarkedInWatch == {1}

\* PlexClient.get_watch_history, lines 226-236: the paths Plex reports
\* with a view count above 0.
WatchHistory(views) ==
    [p \in {q \in DOMAIN views : views[q] > 0} |-> views[p]]

\* Lines 120-180: both fetches have returned, totals stored, new_items
\* split; the refresh waits for Plex.
W_Fetched(source, m, n) ==
    LET all_media == (IF source \in {"all", "movies"} THEN MovieList(m) ELSE << >>)
                     \o (IF source \in {"all", "tv"} THEN EpisodeList(n) ELSE << >>)
        movies_total == Len(OfType(all_media, RADARR))
        tv_total == Len(OfType(all_media, SONARR))
        st1 == RefreshTotals(source, state, movies_total, tv_total)
        new_items == NewItems(all_media, get_scanned_paths(st1))
    IN  /\ rtask[1].pc \in {"idle", "done"}
        /\ rtask' = [rtask EXCEPT ![1] =
                        [IdleR EXCEPT !.pc = "watching", !.source = source,
                                      !.all_media = all_media,
                                      !.movies_total = movies_total,
                                      !.tv_total = tv_total,
                                      !.new_items = new_items]]
        /\ state' = st1
        /\ state_file' = Written(st1)
        /\ refresh_status' = [refreshing |-> TRUE, refresh_source |-> source,
                              refresh_phase |-> "processing",
                              refresh_current_instance |-> "none"]
        /\ UNCHANGED << results, val, config, today, files, scan_queue,
                        last_full_refresh, initial_scan_complete, media_cache,
                        media_cache_by_instance, radarr_clients, sonarr_clients,
                        initialized, replacements_today, replacement_reset_date,
                        vtask, bgtask, requests, deleted_on, returned >>

\* Lines 180-287: get_watch_history has returned the counts, returned an
\* empty dict, or raised (caught at line 182); the lists are ordered, the
\* queue and the caches built.
W_Watched(outcome, views) ==
    LET rec == rtask[1]
        watch_counts == IF outcome = "counts" THEN WatchHistory(views) ELSE << >>
        count == Len(rec.new_items)
    IN  /\ rec.pc = "watching"
        /\ \E movies \in Prioritize(OfType(rec.new_items, RADARR), watch_counts),
              tv \in Prioritize(OfType(rec.new_items, SONARR), watch_counts) :
              scan_queue' = BuildQueue(rec.source, movies, tv, scan_queue)
        /\ last_full_refresh' =
               IF rec.source = "all" THEN today ELSE last_full_refresh
        /\ media_cache' = FlatCache(rec.all_media)
        /\ media_cache_by_instance' = InstanceCache(rec.all_media)
        /\ state' = IF ~initial_scan_complete /\ count > 0
                    THEN mark_scan_started(state, today) ELSE state
        /\ state_file' = IF ~initial_scan_complete /\ count > 0
                         THEN Written(state') ELSE state_file
        /\ refresh_status' = NoRefresh
        /\ rtask' = [rtask EXCEPT ![1] =
                        [rec EXCEPT !.pc = "done", !.count = count,
                                    !.watch_counts = watch_counts]]
        /\ UNCHANGED << results, val, config, today, files,
                        initial_scan_complete, radarr_clients, sonarr_clients,
                        initialized, replacements_today, replacement_reset_date,
                        vtask, bgtask, requests, deleted_on, returned >>

NextWatch ==
    \/ \E source \in Sources, m \in 0 .. MaxWatchMovies,
          n \in 0 .. MaxWatchEpisodes : W_Fetched(source, m, n)
    \/ \E outcome \in {"counts", "empty", "failed"},
          views \in [WatchPaths -> 0 .. MaxViews] : W_Watched(outcome, views)
    \/ \E file_path \in MarkedInWatch :
          StoreMarkScanned(file_path, TRUE,
                           IF file_path \in 1 .. MaxWatchMovies THEN "movie" ELSE "tv")

SpecWatch == InitStore /\ [][NextWatch]_vars

\* The store with its file: each writing operation up to a number of
\* scans, and the process starting again on the file it left.
MaxScanned == 12
MaxDurableReplaced == 1
SaveOutcomes == {"written", "unchanged", "truncated"}
DamagedKinds == {"missing", "unreadable", "garbage", "not_object"}
SavingOps == {"replaced", "scan_started", "scan_completed",
              "set_library_totals", "clear"}

\* state.py of a saving operation: the dict it leaves.
AfterOp(op, st, file_path) ==
    IF op = "replaced" THEN mark_replaced(st, file_path, FALSE, "unknown")
    ELSE IF op = "scan_started" THEN mark_scan_started(st, today)
    ELSE IF op = "scan_completed" THEN mark_scan_completed(st, today)
    ELSE IF op = "set_library_totals" THEN set_library_totals(st, 1, 1)
    ELSE clear(st)

\* mark_scanned on a store that holds a dict (on a list or None it raises).
D_MarkScanned(file_path, valid, media_type, outcome) ==
    /\ IsDict(state)
    /\ state.total_scanned < MaxScanned
    /\ state' = mark_scanned(state, file_path, valid, media_type)
    /\ state_file' = MarkScannedFile(state_file, state', outcome)
    /\ returned' = [NoReturn EXCEPT !.file_path = file_path,
                                    !.action_taken = "scanned"]
    /\ UNCHANGED rtask
    /\ StoreFrame

\* mark_replaced, mark_scan_started, mark_scan_completed, set_library_totals
\* or clear: the change, then _save.
D_Saving(op, file_path, outcome) ==
    /\ IsDict(state) \/ op = "clear"
    /\ op = "replaced" => state.total_replaced < MaxDurableReplaced
    /\ state' = AfterOp(op, state, file_path)
    /\ state_file' = _save(state_file, state', outcome)
    /\ returned' = [NoReturn EXCEPT !.file_path = file_path,
                                    !.action_taken = op]
    /\ UNCHANGED rtask
    /\ StoreFrame

\* The process starts again: StateManager(state_file).
D_Restart ==
    /\ state' = _load(state_file)
    /\ returned' = [NoReturn EXCEPT !.action_taken = "constructed"]
    /\ UNCHANGED << state_file, rtask >>
    /\ StoreFrame

\* The file is removed, made unreadable or overwritten from outside.
D_Damage(kind) ==
    /\ state_file' = [kind |-> kind, content |-> InitState]
    /\ UNCHANGED << state, returned, rtask >>
    /\ StoreFrame

\* A disk that works.
NextDurable ==
    \/ D_MarkScanned(PathOf(1), TRUE, "movie", "written")
    \/ \E op \in SavingOps : D_Saving(op, PathOf(1), "written")
    \/ D_Restart

SpecDurable == InitStore /\ [][NextDurable]_vars

\* A disk that may fail and a file that may be damaged.
MaxLoadScanned == 2

NextLoad ==
    \/ \E outcome \in SaveOutcomes :
          /\ IsDict(state)
          /\ state.total_scanned < MaxLoadScanned
          /\ D_MarkScanned(PathOf(1), TRUE, "movie", outcome)
    \/ \E op \in SavingOps, outcome \in SaveOutcomes :
          D_Saving(op, PathOf(1), outcome)
    \/ D_Restart
    \/ \E kind \in DamagedKinds : D_Damage(kind)

SpecLoad == InitStore /\ [][NextLoad]_vars

\* The replacement history alone: mark_replaced called again and again, the
\* k-th call for path k, past the length the history is cut at.
MaxReplaced == 503

H_MarkReplaced ==
    /\ state.total_replaced < MaxReplaced
    /\ state' = mark_replaced(state, state.total_replaced + 1, FALSE, "unknown")
    /\ state_file' = Written(state')
    /\ returned' = [NoReturn EXCEPT !.file_path = state.total_replaced + 1,
                                    !.action_taken = "replaced"]
    /\ UNCHANGED rtask
    /\ StoreFrame

NextHistory == H_MarkReplaced

SpecHistory == InitStore /\ [][NextHistory]_vars

\* The background scan with the state store cleared under it (POST
\* /state/clear, webhook.py:791-799): the startup refresh, the scheduled
\* scans and their validations, clear() at any moment.
NextFlag ==
    \/ Initialize
    \/ \E r \in RIds, ok \in BOOLEAN : R_Fetched(r, ok)
    \/ BG_Start
    \/ \E b \in BIds : BG_Continue(b)
    \/ \E v \in VIds, outcome \in Outcomes : V_Validated(v, outcome)
    \/ StoreClear

SpecFlag == InitScanner /\ [][NextFlag]_vars

\* Imports during a full refresh, from an empty library: every fetch
\* succeeds, nothing is deleted, and the only writers of the caches are the
\* refreshes and the import webhook.
NextImport ==
    \/ Initialize
    \/ Refresh("all")
    \/ \E r \in RIds : R_Fetched(r, TRUE)
    \/ \E i \in ItemIds, hasEpId \in BOOLEAN : Webhook(i, hasEpId)
    \/ \E v \in VIds : V_Start(v)
    \/ \E v \in VIds, outcome \in Outcomes : V_Validated(v, outcome)

SpecImport == InitDeferral /\ [][NextImport]_vars

\* ---------------------------------------------------------------- claims
DeletedOn(d) == deleted_on[d]

\* C1: under any interleaving of concurrent validate_and_process calls, the
\* number of files deleted through delete_file on one calendar day never
\* exceeds actions.max_replacements_per_day.
C1_DailyCap ==
    \A d \in Days : DeletedOn(d) <= config.max_replacements_per_day

\* C2: with actions.dry_run enabled no validate_and_process call deletes a
\* file or requests a replacement search, whatever the verdict, the
\* auto-replace toggle and the rate-limiter state are.
C2_DryRun ==
    config.dry_run => /\ requests = {}
                      /\ \A d \in Days : DeletedOn(d) = 0

\* C3: a validation whose result has timed_out = true neither marks the path
\* scanned (valid or invalid) nor deletes the file.
C3_TimedOut ==
    returned.outcome = "timeout" => /\ returned.marked = "no"
                                    /\ ~returned.deleted

FileIds == {FileId(i) : i \in ItemIds}

SearchIds == {MovieId(i) : i \in ItemIds} \cup {EpisodeId(i) : i \in ItemIds}

\* C5: every delete request carries the item's file_id, every search request
\* the item's id (movie source) or its episode id (per-episode source: the
\* cached episode_id, else the id looked up by coordinates); no file id is a
\* search key, no movie or episode id a deletion key.
C5_Keys ==
    \A r \in requests :
      /\ r.req.op = "delete" =>
            /\ r.req.key = r.item.file_id
            /\ r.req.key \notin SearchIds
      /\ r.req.op = "search" =>
            /\ r.req.key \notin FileIds
            /\ r.item.arr_type = RADARR =>
                  /\ r.req.endpoint = "movieId"
                  /\ r.req.key = r.item.id
            /\ r.item.arr_type = SONARR =>
                  /\ r.req.endpoint = "episodeId"
                  /\ r.req.key = IF r.item.episode_id # None
                                 THEN r.item.episode_id
                                 ELSE get_episode_id_by_info(
                                          r.item.series_id,
                                          r.item.season_number,
                                          r.item.episode_number, TRUE)

\* Both kinds of search key have been sent: a movie id, and an episode id
\* that had to be looked up by coordinates.
C5_Witness ==
    /\ \E r \in requests : r.req.op = "search" /\ r.item.arr_type = RADARR
    /\ \E r \in requests : /\ r.req.op = "search"
                            /\ r.item.arr_type = SONARR
                            /\ r.item.episode_id = None
    /\ \E r \in requests : r.req.op = "delete"

\* The verdict a validation has just been given, in the step of V_Validated.
JustValidated(v, outcome) ==
    /\ vtask[v].pc = "validate"
    /\ vtask'[v].pc # "validate"
    /\ outcome = IF vtask'[v].pc = "done" THEN returned'.outcome
                 ELSE vtask'[v].outcome

\* C6: with auto-replace enabled and budget N, once N replacements have been
\* counted for the current day, the next validation of an invalid file on
\* that day sends no delete and no search, returns "queued", and does not
\* put the path into the scanned set.
C6_OverBudget ==
    [][\A v \in VIds :
         ( /\ \E outcome \in {"invalid", "mismatch", "timeout"} :
                  JustValidated(v, outcome)
           /\ config.auto_replace
           /\ replacement_reset_date = today
           /\ replacements_today >= config.max_replacements_per_day )
         => /\ vtask'[v].pc = "done"
            /\ returned'.action_taken = "queued"
            /\ returned'.file_path = vtask[v].file_path
            /\ requests' = requests
            /\ deleted_on' = deleted_on
            /\ files' = files
            /\ get_scanned_paths(state') = get_scanned_paths(state)]_vars

\* A validation has been deferred, and its path is not in the scanned set.
C6_Witness ==
    /\ returned.action_taken = "queued"
    /\ returned.outcome = "invalid"
    /\ ~is_scanned(state, returned.file_path)
    /\ replacements_today >= config.max_replacements_per_day
    /\ replacement_reset_date = today

\* C8: for every path P and every prior state of the store, is_scanned(P)
\* is false right after mark_replaced(P, ...), and the scan records of all
\* other paths are as they were.
C8_ReplacedClears ==
    [][\A file_path \in Paths :
         ( /\ state'.total_replaced = state.total_replaced + 1
           /\ returned'.file_path = file_path
           /\ returned'.action_taken = "replaced" )
         => /\ ~is_scanned(state', file_path)
            /\ \A q \in Paths \ {file_path} :
                  /\ is_scanned(state', q) = is_scanned(state, q)
                  /\ is_scanned(state, q) =>
                        state'.scanned_files[q] = state.scanned_files[q]]_vars

\* mark_replaced has just cleared the record of a scanned path while the
\* other path keeps its record.
C8_Witness ==
    /\ returned.action_taken = "replaced"
    /\ state.total_replaced = 1
    /\ state.total_scanned = 2
    /\ ~is_scanned(state, returned.file_path)
    /\ \E q \in Paths \ {returned.file_path} : is_scanned(state, q)

InFlight == {r \in RIds : rtask[r].pc = "fetching"}

\* C4: at most one refresh_library execution is in progress at any time.
C4_SingleFlight == Cardinality(InFlight) <= 1

\* The step in which refresh r builds its queue and returns.
RefreshReturns(r) == rtask[r].pc # "done" /\ rtask'[r].pc = "done"

QueuePaths(queue) == {queue[k].file_path : k \in 1 .. Len(queue)}

\* C7: no path that is in the scanned set when a refresh_library call builds
\* its queue is in the scan queue after that refresh.
C7_ScannedExcluded ==
    [][\A r \in RIds :
         RefreshReturns(r) =>
             QueuePaths(scan_queue') \cap get_scanned_paths(state) = {}]_vars

UnscannedOfType(arr_type) ==
    {PathOf(i) : i \in {j \in files : ArrTypeOf(j) = arr_type}}
        \ get_scanned_paths(state)

\* C9: refresh_library("tv") keeps every queued movie item (and the TV items
\* of the new queue are the newly fetched unscanned ones); symmetrically
\* refresh_library("movies") keeps every queued TV item.
C9_PartialKeepsOther ==
    [][\A r \in RIds :
         /\ (RefreshReturns(r) /\ rtask'[r].source = "tv") =>
               /\ OfType(scan_queue', RADARR) = OfType(scan_queue, RADARR)
               /\ Len(OfType(scan_queue', SONARR)) = rtask'[r].count
               /\ QueuePaths(OfType(scan_queue', SONARR))
                      \subseteq UnscannedOfType(SONARR)
         /\ (RefreshReturns(r) /\ rtask'[r].source = "movies") =>
               /\ OfType(scan_queue', SONARR) = OfType(scan_queue, SONARR)
               /\ Len(OfType(scan_queue', RADARR)) = rtask'[r].count
               /\ QueuePaths(OfType(scan_queue', RADARR))
                      \subseteq UnscannedOfType(RADARR)]_vars

\* A TV refresh has returned with new TV items, and the queue holds them
\* next to a movie item.
C9_Witness ==
    /\ \E r \in RIds : /\ rtask[r].pc = "done"
                       /\ rtask[r].source = "tv"
                       /\ rtask[r].count > 0
    /\ OfType(scan_queue, RADARR) # << >>
    /\ OfType(scan_queue, SONARR) # << >>
    /\ InFlight = {}

\* run_background_scan has just called check_initial_scan_complete; the
\* value it got is kept in initial_done.
Checked(b) == bgtask[b].pc = "idle" /\ bgtask'[b].pc # "idle"

Recorded == state'.scan_completed # state.scan_completed

\* The state in which completion may be recorded.
AllScanned ==
    /\ Len(scan_queue) = 0
    /\ last_full_refresh # None
    /\ get_stats(state).movies_scanned >= get_stats(state).movies_total
    /\ get_stats(state).tv_scanned >= get_stats(state).tv_total

\* C10 as stated: completion is recorded only with the queue empty, a full
\* refresh done and each type's scanned count at least its library total; in
\* every other state nothing is recorded and the call returns false.
C10_FalseElsewhere ==
    [][\A b \in BIds :
         Checked(b) =>
             /\ Recorded => AllScanned
             /\ ~AllScanned => ~Recorded /\ ~bgtask'[b].initial_done]_vars

\* C10, amended: completion is recorded only with the queue empty, a full
\* refresh done and each type's scanned count at least its library total; in
\* every other state nothing is recorded, and the call returns false unless
\* completion had been recorded before, when it returns true.
C10_RecordsOnlyWhenScanned ==
    [][\A b \in BIds :
         Checked(b) =>
             /\ Recorded => AllScanned /\ bgtask'[b].initial_done
             /\ ~AllScanned =>
                   /\ ~Recorded
                   /\ initial_scan_complete' = initial_scan_complete
                   /\ bgtask'[b].initial_done = initial_scan_complete]_vars

\* Completion has been recorded for a library of one movie and one episode,
\* both scanned.
C10_Witness ==
    /\ initial_scan_complete
    /\ state.scan_completed # None
    /\ state.scan_started # None
    /\ \E b \in BIds : bgtask[b].initial_done
    /\ \E b \in BIds : bgtask[b].pc = "done" /\ ~bgtask[b].initial_done
    /\ scan_queue = << >>
    /\ get_stats(state).movies_total > 0
    /\ get_stats(state).tv_total > 0
    /\ get_stats(state).movies_scanned >= get_stats(state).movies_total
    /\ get_stats(state).tv_scanned >= get_stats(state).tv_total

\* The source catalog of file i is configured (its client is connected).
Configured(i) ==
    IF ArrTypeOf(i) = RADARR THEN radarr_clients # << >>
    ELSE sonarr_clients # << >>

ReplacedPaths(st) ==
    {st.replaced_files[k].path : k \in 1 .. Len(st.replaced_files)}

\* C11: scan completion is never recorded while some file held by a
\* configured source catalog has been neither scanned nor replaced.
C11_CompleteCoversCatalog ==
    [][Recorded =>
          \A i \in files :
              Configured(i) => \/ is_scanned(state, PathOf(i))
                               \/ PathOf(i) \in ReplacedPaths(state)]_vars

\* The start-of-file sample was decoded and failed.
StartFailed ==
    /\ val.decoded # << >>
    /\ val.decoded[1].stage = "start"
    /\ ~val.decoded[1].result.success

StagesDecoded == {val.decoded[k].stage : k \in 1 .. Len(val.decoded)}

NoLaterSample ==
    /\ StagesDecoded \cap {"middle", "end"} = {}
    /\ val.pc \notin {"middle", "end"}

\* C12 as stated: in "full" mode, if the start sample fails then neither the
\* middle nor the end sample is decoded, and the returned error list is
\* exactly the errors of the start sample.
C12_ExactlyStartErrors ==
    (val.cfg.deep_scan_mode = "full" /\ StartFailed) =>
        /\ NoLaterSample
        /\ val.pc = "done" =>
              val.errors = Tagged("start", val.decoded[1].result.errors)

\* The error of the duration check, which runs before the deep scan.
DurationErrors ==
    IF /\ val.cfg.check_duration_sanity
       /\ val.duration > MaxDurationHours * 3600
    THEN << [stage |-> "duration", error |-> "exceeds max"] >>
    ELSE << >>

\* C12, amended: in "full" mode, if the start sample fails then neither the
\* middle nor the end sample is decoded, and the returned error list is
\* exactly the errors of the start sample, preceded by the error of the
\* duration check when that check failed.
C12_StartErrorsAfterDuration ==
    (val.cfg.deep_scan_mode = "full" /\ StartFailed) =>
        /\ NoLaterSample
        /\ val.pc = "done" =>
              val.errors = DurationErrors
                              \o Tagged("start", val.decoded[1].result.errors)

\* A file long enough for all three samples failed at the start in "full"
\* mode and validate_file has returned.
C12_Witness ==
    /\ val.pc = "done"
    /\ val.cfg.deep_scan_mode = "full"
    /\ StartFailed
    /\ val.duration > SampleDuration * 3
    /\ DurationErrors = << >>
    /\ Len(val.errors) = 2

TimedOutAttempts ==
    {k \in 1 .. Len(val.decoded) : val.decoded[k].raw.kind = "timeout"}

\* C13: a decode attempt (start, middle, end or full decode) that exceeds its
\* timeout makes the result timed_out = true and valid = false; attempts
\* that fail without timing out leave timed_out false.
C13_TimedOutFlag ==
    /\ TimedOutAttempts # {} => val.timed_out /\ ~val.valid
    /\ TimedOutAttempts = {} => ~val.timed_out

\* validate_file has returned after a start sample that passed and a middle
\* sample that timed out.
C13_Witness ==
    /\ val.pc = "done"
    /\ Len(val.decoded) = 2
    /\ val.decoded[1].result.success
    /\ val.decoded[2].stage = "middle"
    /\ val.decoded[2].raw.kind = "timeout"
    /\ val.timed_out

\* The limiter's answer in the current state.
RateLimitNow ==
    check_rate_limit(replacements_today, replacement_reset_date, today,
                     config.max_replacements_per_day)

\* C14: a file the validator reports valid but the path-mismatch detector
\* flags is treated as invalid: a "wrong file" error is appended, the path is
\* never marked scanned-as-valid, and the flag / queue / replace decision is
\* the one for a file that failed validation.
C14_MismatchIsInvalid ==
    [][/\ \A v \in VIds :
            JustValidated(v, "mismatch") =>
               /\ ~config.auto_replace =>
                     /\ vtask'[v].pc = "done"
                     /\ returned'.action_taken = "flagged"
                     /\ returned'.marked = "invalid"
                     /\ is_scanned(state', vtask[v].file_path)
                     /\ ~state'.scanned_files[vtask[v].file_path].valid
               /\ (config.auto_replace /\ ~RateLimitNow.ok) =>
                     /\ vtask'[v].pc = "done"
                     /\ returned'.action_taken = "queued"
                     /\ state' = state
               /\ (config.auto_replace /\ RateLimitNow.ok) =>
                     /\ vtask'[v].pc = "delete"
                     /\ state' = state
       /\ returned'.outcome = "mismatch" =>
             /\ returned'.errors = << "wrong file" >>
             /\ returned'.marked # "valid"
             /\ returned'.action_taken \in {"flagged", "queued", "replaced"}]_vars

\* A well-formed movie file with the wrong name has been replaced.
C14_Witness ==
    /\ returned.outcome = "mismatch"
    /\ returned.action_taken = "replaced"
    /\ returned.errors = << "wrong file" >>
    /\ returned.deleted

\* Instances that hold the path in their cache and have a connected client,
\* by their position in the insertion order of the per-instance cache.
SourcesOf(file_path) ==
    {k \in DOMAIN media_cache_by_instance :
        /\ file_path \in DOMAIN media_cache_by_instance[k].cache
        /\ media_cache_by_instance[k].instance
              \in Range(radarr_clients) \cup Range(sonarr_clients)}

\* C15: when two connected instances report the same path, a lookup returns
\* the cached item of exactly one of them together with that instance's own
\* client, and the instance is fixed by the cache alone: the first one in the
\* cache's insertion order.
C15_OneInstance ==
    [][vtask'[1] # vtask[1] /\ vtask'[1].pc \in {"found", "missed"} =>
          LET r == vtask'[1]
              S == SourcesOf(r.file_path)
          IN  Cardinality(S) >= 2 =>
                  \E k \in S :
                      /\ \A g \in S : k <= g
                      /\ r.pc = "found"
                      /\ r.item = media_cache_by_instance[k].cache[r.file_path]
                      /\ r.item.arr_instance = media_cache_by_instance[k].instance
                      /\ r.client = r.item.arr_instance]_vars

\* A lookup answered from the instance that is not the one the flat cache
\* holds for the path.
C15_Witness ==
    /\ vtask[1].pc = "found"
    /\ Cardinality(SourcesOf(vtask[1].file_path)) >= 2
    /\ vtask[1].file_path \in DOMAIN media_cache
    /\ media_cache[vtask[1].file_path].arr_instance # vtask[1].client
    /\ vtask[1].client = vtask[1].item.arr_instance

\* The validation that returned last deferred file i, and the file is still
\* on disk and in the catalog cache, unscanned, not queued, not in validation.
DeferredFile(i) ==
    /\ returned.action_taken = "queued"
    /\ returned.file_path = PathOf(i)
    /\ i \in files
    /\ PathOf(i) \in DOMAIN media_cache
    /\ ~is_scanned(state, PathOf(i))
    /\ PathOf(i) \notin QueuePaths(scan_queue)
    /\ \A v \in VIds : vtask[v].file_path # PathOf(i)

\* A call of run_background_scan that returned at once: no refresh awaited,
\* no item validated.
ReturnedAtOnce ==
    \E b \in BIds : bgtask[b].pc = "idle" /\ bgtask'[b].pc = "done"

\* C16: a deferred file resurfaces.  The part a finite run can refute: with
\* the clients connected and a deferred file waiting, a run of the background
\* scan does not return at once; it refreshes the library or works on the
\* queue.
C16_DeferredResurfaces ==
    [][(/\ initialized
        /\ \A r \in RIds : rtask[r].pc \in {"idle", "done"}
        /\ \E i \in ItemIds : DeferredFile(i))
       => ~ReturnedAtOnce]_vars

\* The path has a scan record that says invalid.
ScannedAsInvalid(st, file_path) ==
    /\ is_scanned(st, file_path)
    /\ ~st.scanned_files[file_path].valid

\* C17: with auto-replace disabled, the validation of an invalid file marks
\* the path scanned-as-invalid, returns "flagged", sends no request and
\* leaves the rate limiter (counter and reset date) as it was.
C17_FlaggedOnly ==
    [][\A v \in VIds :
         ( /\ \E outcome \in {"invalid", "mismatch", "timeout"} :
                  JustValidated(v, outcome)
           /\ ~config.auto_replace )
         => /\ vtask'[v].pc = "done"
            /\ returned'.action_taken = "flagged"
            /\ returned'.file_path = vtask[v].file_path
            /\ ScannedAsInvalid(state', vtask[v].file_path)
            /\ requests' = requests
            /\ deleted_on' = deleted_on
            /\ files' = files
            /\ replacements_today' = replacements_today
            /\ replacement_reset_date' = replacement_reset_date]_vars

\* An invalid file has been flagged with auto-replace off on a later day than
\* the rate limiter's reset date: it is marked invalid, no request has ever
\* been sent, the limiter has not been consulted.
C17_Witness ==
    /\ ~config.auto_replace
    /\ returned.action_taken = "flagged"
    /\ returned.outcome = "invalid"
    /\ ScannedAsInvalid(state, returned.file_path)
    /\ requests = {}
    /\ today > replacement_reset_date

\* What the store holds about replacements.
Replacements(st) == << st.total_replaced, st.replaced_files >>

\* _replace_file has just returned False in validation v: the delete request
\* failed, or the item of an invalid file had no file id when the rate
\* limiter allowed the replacement.
DeleteFailed(v) ==
    vtask[v].pc = "delete" /\ vtask'[v].pc = "done"

NoFileId(v) ==
    /\ \E outcome \in {"invalid", "mismatch", "timeout"} : JustValidated(v, outcome)
    /\ config.auto_replace
    /\ RateLimitNow.ok
    /\ vtask[v].item.file_id = None

\* C18: when the delete request of a replacement fails, or the item has no
\* file id, the replacement is aborted: no search request is sent, the
\* counter of the day is not incremented, no replacement is recorded, the
\* path is marked scanned-as-invalid and the disposition is "flagged".
C18_DeleteFailureAborts ==
    [][\A v \in VIds :
         DeleteFailed(v) \/ NoFileId(v)
         => /\ vtask'[v].pc = "done"
            /\ returned'.action_taken = "flagged"
            /\ returned'.file_path = vtask[v].file_path
            /\ ~returned'.searched
            /\ requests' = requests
            /\ files' = files
            /\ replacements_today' <= replacements_today
            /\ DeleteFailed(v) => replacements_today' = replacements_today
            /\ Replacements(state') = Replacements(state)
            /\ ScannedAsInvalid(state', vtask[v].file_path)]_vars

\* Two aborted replacements: one file whose delete request was sent and
\* failed, then one whose cached item has no file id; both are flagged and
\* marked invalid, no search was sent, nothing was counted or recorded.
C18_Witness ==
    /\ config.auto_replace
    /\ returned.action_taken = "flagged"
    /\ returned.file_path \in DOMAIN media_cache
    /\ media_cache[returned.file_path].file_id = None
    /\ ScannedAsInvalid(state, returned.file_path)
    /\ \E r \in requests :
          /\ r.req.op = "delete"
          /\ r.item.file_path # returned.file_path
          /\ ScannedAsInvalid(state, r.item.file_path)
    /\ \A r \in requests : r.req.op # "search"
    /\ replacements_today = 0
    /\ Replacements(state) = << 0, << >> >>

\* client.search_for_replacement has just returned in validation v.
SearchReturned(v) ==
    vtask[v].pc = "search" /\ vtask'[v].pc = "done"

\* C19: after a successful delete the result does not depend on the search:
\* whether the search request was sent or failed before it, the disposition
\* is "replaced", the counter of the day grows by one, one replacement is
\* recorded for the path and the path's scan record is cleared.
C19_SearchFailureIsSuccess ==
    [][\A v \in VIds :
         SearchReturned(v)
         => /\ returned'.action_taken = "replaced"
            /\ returned'.file_path = vtask[v].file_path
            /\ returned'.deleted
            /\ replacements_today' = replacements_today + 1
            /\ state'.total_replaced = state.total_replaced + 1
            /\ Len(state'.replaced_files) = Len(state.replaced_files) + 1
            /\ state'.replaced_files[Len(state'.replaced_files)].path
                  = vtask[v].file_path
            /\ ~is_scanned(state', vtask[v].file_path)]_vars

\* A replacement whose search was never sent, for a path that had a scan
\* record before: counted, recorded, the record cleared.
C19_Witness ==
    /\ returned.action_taken = "replaced"
    /\ returned.deleted
    /\ ~returned.searched
    /\ \A r \in requests : r.req.op # "search"
    /\ replacements_today = 1
    /\ state.total_replaced = 1
    /\ state.total_scanned >= 1
    /\ ReplacedPaths(state) = {returned.file_path}
    /\ get_scanned_paths(state) = {}

\* No cache holds the path.
NotInCache(file_path) ==
    /\ file_path \notin DOMAIN media_cache
    /\ \A k \in DOMAIN media_cache_by_instance :
          file_path \notin DOMAIN media_cache_by_instance[k].cache

\* validate_and_process has just been started for the path validation v had
\* queued.
StartedOn(v, file_path) ==
    /\ vtask[v].pc = "queued"
    /\ vtask[v].file_path = file_path
    /\ vtask'[v].pc # "queued"

\* C20: a terminal skip changes nothing.  When the file is not on disk or its
\* path is in no cache, validate_and_process returns no result at once: no
\* validator run, no refresh or other remote request, and the store (scanned
\* set, replacement history, counters), the rate limiter and the recorded
\* notification results are as before.
C20_SkipChangesNothing ==
    [][\A v \in VIds, i \in ItemIds :
         ( /\ StartedOn(v, PathOf(i))
           /\ i \notin files \/ NotInCache(PathOf(i)) )
         => /\ vtask'[v] = DoneV
            /\ returned' = Skipped(PathOf(i))
            /\ state' = state
            /\ replacements_today' = replacements_today
            /\ replacement_reset_date' = replacement_reset_date
            /\ results' = results
            /\ requests' = requests
            /\ rtask' = rtask
            /\ refresh_status' = refresh_status
            /\ scan_queue' = scan_queue
            /\ files' = files]_vars

\* A skipped validation of a file that is on disk but in no cache, after an
\* earlier validation had recorded its result and its scan record.
C20_Witness ==
    /\ returned.action_taken = "skipped"
    /\ returned.file_path \in OnDisk(files)
    /\ NotInCache(returned.file_path)
    /\ results = 1
    /\ state.total_scanned = 1

\* The batch loop of background scan b has just gone on from its sleep.
LoopWentOn(b) ==
    /\ bgtask[b].pc = "validating"
    /\ vtask[bgtask[b].vid].pc = "done"
    /\ bgtask'[b] # bgtask[b]

\* The loop of b has taken up the item: its validation has started, or has
\* been skipped at once.
TakenUp(b, item) ==
    /\ bgtask'[b].pc = "validating"
    /\ LET t == vtask'[bgtask'[b].vid]
       IN  \/ t.pc = "validate" /\ t.file_path = item.file_path /\ t.owner = b
           \/ t.pc = "done" /\ returned' = Skipped(item.file_path)

\* C21: an exception raised while one file of a batch is processed does not
\* leave run_background_scan and does not stop the batch: the task keeps its
\* remaining items when the exception is raised, and when the loop goes on
\* after it, it takes up the next item of the same batch.
C21_BatchSurvivesException ==
    [][\A b \in BIds :
         /\ ( /\ bgtask[b].pc = "validating"
              /\ vtask[bgtask[b].vid].pc = "validate"
              /\ vtask'[bgtask[b].vid].pc = "done"
              /\ returned'.action_taken = "raised" )
            => bgtask'[b] = bgtask[b]
         /\ ( /\ LoopWentOn(b)
              /\ returned.action_taken = "raised"
              /\ bgtask[b].batch # << >> )
            => /\ TakenUp(b, Head(bgtask[b].batch))
               /\ bgtask'[b].batch = Tail(bgtask[b].batch)]_vars

\* The second file of a batch is in validation after the first one raised:
\* the refresh had queued every file, the batch took them all, nothing was
\* marked, nothing recorded.
C21_Witness ==
    \E b \in BIds :
        /\ bgtask[b].pc = "validating"
        /\ bgtask[b].batch = << >>
        /\ vtask[bgtask[b].vid].pc = "validate"
        /\ vtask[bgtask[b].vid].owner = b
        /\ returned.action_taken = "raised"
        /\ returned.file_path # vtask[bgtask[b].vid].file_path
        /\ \A v \in VIds : v # bgtask[b].vid => vtask[v].pc = "done"
        /\ \E r \in RIds : rtask[r].pc = "done" /\ rtask[r].count = NumItems
        /\ \A r \in RIds : rtask[r].pc = "done" => rtask[r].count = NumItems
        /\ scan_queue = << >>
        /\ state.total_scanned = 0
        /\ results = 0

\* Paths of the type that are in the scanned set now.
ScannedOfType(st, media_type) ==
    {q \in get_scanned_paths(st) : PathMediaType(q) = media_type}

\* Replacements of files of the type made so far (the history is below its
\* cap).
EverReplaced(st, media_type) ==
    Cardinality({k \in 1 .. Len(st.replaced_files) :
                    PathMediaType(st.replaced_files[k].path) = media_type})

\* C22: movies_scanned (tv_scanned) of get_stats is the number of movie (TV)
\* paths in the scanned set plus the number of movie (TV) files replaced so
\* far.
C22_ReplacedStillCounts ==
    /\ get_stats(state).movies_scanned
          = Cardinality(ScannedOfType(state, "movie")) + EverReplaced(state, "movie")
    /\ get_stats(state).tv_scanned
          = Cardinality(ScannedOfType(state, "tv")) + EverReplaced(state, "tv")

\* The replacement record the step has appended.
LastReplaced(st) == st.replaced_files[Len(st.replaced_files)]

\* C24: the record the orchestrator appends for a replacement has the
\* wrong-file flag set exactly when a path mismatch caused the replacement,
\* and carries the item's title, a reason and the item's media type.
C24_RecordTellsCause ==
    [][\A v \in VIds, i \in ItemIds :
         SearchReturned(v) /\ vtask[v].file_path = PathOf(i)
         => /\ LastReplaced(state').path = PathOf(i)
            /\ LastReplaced(state').wrong_file = (vtask[v].outcome = "mismatch")
            /\ LastReplaced(state').title = TitleOf(i)
            /\ LastReplaced(state').reason # ""
            /\ LastReplaced(state').media_type = MediaType(vtask[v].item)]_vars

\* movies_total and tv_total as get_stats returns them.
Totals(st) == << get_stats(st).movies_total, get_stats(st).tv_total >>

\* What the store call of the step was, and the totals handed to it.
Called(op) == returned'.action_taken = op
Handed == rtask'[1]

\* The totals right after set_library_totals, and after a refresh of one type.
TotalsAsSet ==
    Called("set_library_totals") =>
        /\ Handed.source = "all"
              => Totals(state') = << Handed.movies_total, Handed.tv_total >>
        /\ Handed.source = "movies"
              => Totals(state') = << Handed.movies_total, Totals(state)[2] >>
        /\ Handed.source = "tv"
              => Totals(state') = << Totals(state)[1], Handed.tv_total >>

\* C23 as stated: after set_library_totals(m, t) get_stats returns m and t;
\* every other operation of the store leaves both totals as they were; a
\* refresh of one media type leaves the other type's total as it was.
C23_TotalsUntilNextSet ==
    [][/\ TotalsAsSet
       /\ ~Called("set_library_totals") => Totals(state') = Totals(state)]_vars

\* C23 amended: the same, except that clear() resets both totals to 0.
C23_TotalsUntilSetOrClear ==
    [][/\ TotalsAsSet
       /\ Called("clear") => Totals(state') = << 0, 0 >>
       /\ ~Called("set_library_totals") /\ ~Called("clear")
             => Totals(state') = Totals(state)]_vars

\* Totals set to (1, 2) by a full refresh are still there after a scan mark,
\* a replacement and the two scan stamps.
C23_Witness ==
    /\ rtask[1].source = "all"
    /\ rtask[1].movies_total = 1 /\ rtask[1].tv_total = 2
    /\ Totals(state) = << 1, 2 >>
    /\ returned.action_taken = "scan_completed"
    /\ state.scan_started # None /\ state.scan_completed # None
    /\ state.total_scanned >= 1
    /\ state.total_replaced >= 1

\* The lists the last refresh split its fetched media into.
FetchedMovies == OfType(rtask[1].all_media, RADARR)
FetchedTv == OfType(rtask[1].all_media, SONARR)

\* Positions of the movies in a queue; the episodes that stand before a
\* position; the position of the next movie after p (the end if none).
MoviePositions(queue) == {p \in 1 .. Len(queue) : queue[p].arr_type = RADARR}
EpisodesBefore(queue, p) ==
    Cardinality({q \in 1 .. p - 1 : queue[q].arr_type = SONARR})
NextMovie(queue, p) ==
    LET later == {q \in MoviePositions(queue) : q > p}
    IN  IF later = {} THEN Len(queue) + 1
        ELSE CHOOSE q \in later : \A g \in later : q <= g

ItemsOf(seq) == {seq[k] : k \in 1 .. Len(seq)}
FetchedTypes(source) ==
    IF source = "all" THEN {RADARR, SONARR}
    ELSE IF source = "movies" THEN {RADARR} ELSE {SONARR}

\* What the queue of a refresh holds, whatever Plex answered: the fetched
\* unscanned items, and for a partial refresh the queued items of the type
\* it did not fetch.
QueueContents(rec, queue) ==
    ItemsOf(rec.new_items)
       \union {it \in ItemsOf(queue) : it.arr_type \notin FetchedTypes(rec.source)}

NonIncreasing(seq, watch_counts) ==
    \A k \in 1 .. Len(seq) - 1 :
       ViewCount(watch_counts, seq[k].file_path)
          >= ViewCount(watch_counts, seq[k + 1].file_path)

\* The step on which the refresh goes on after the answer of Plex.
WatchReturned == rtask[1].pc = "watching" /\ rtask'[1].pc = "done"

\* C26 as stated: the watch history never changes which items the queue of
\* a refresh holds, and when counts are available the items of each media
\* type stand in the queue by non-increasing watch count.
C26_EachTypeByCount ==
    [][WatchReturned =>
          /\ ItemsOf(scan_queue') = QueueContents(rtask[1], scan_queue)
          /\ Len(scan_queue') = Cardinality(QueueContents(rtask[1], scan_queue))
          /\ DOMAIN rtask'[1].watch_counts # {} =>
                \A arr_type \in {RADARR, SONARR} :
                   NonIncreasing(OfType(scan_queue', arr_type),
                                 rtask'[1].watch_counts)]_vars

\* C26, amended: the same, the order holding for each media type the
\* refresh fetched; the items a partial refresh keeps of the other type
\* stay in the order they had.
C26_FetchedTypesByCount ==
    [][WatchReturned =>
          /\ ItemsOf(scan_queue') = QueueContents(rtask[1], scan_queue)
          /\ Len(scan_queue') = Cardinality(QueueContents(rtask[1], scan_queue))
          /\ OfType(scan_queue', RADARR) = OfType(scan_queue, RADARR)
                \/ RADARR \in FetchedTypes(rtask[1].source)
          /\ OfType(scan_queue', SONARR) = OfType(scan_queue, SONARR)
                \/ SONARR \in FetchedTypes(rtask[1].source)
          /\ DOMAIN rtask'[1].watch_counts # {} =>
                \A arr_type \in FetchedTypes(rtask[1].source) :
                   NonIncreasing(OfType(scan_queue', arr_type),
                                 rtask'[1].watch_counts)]_vars

\* A full refresh with counts has put the second movie, watched more often,
\* before the first, and both episodes behind them.
C26_Witness ==
    /\ rtask[1].pc = "done" /\ rtask[1].source = "all"
    /\ Len(rtask[1].new_items) = 4
    /\ ViewCount(rtask[1].watch_counts, 2) > ViewCount(rtask[1].watch_counts, 1)
    /\ Len(scan_queue) = 4
    /\ scan_queue[1].file_path = 2
    /\ scan_queue[2].file_path \in {101, 102}

\* What a start of the process would load now, and the scans it would miss.
Durable == _load(state_file)
Lag == state.total_scanned - Durable.total_scanned

C28_DamagedFileLoadsEmpty ==
    [][(returned'.action_taken = "constructed" /\ state_file.kind \in DamagedKinds)
          => state' = InitState]_vars

\* C29: after n calls of mark_replaced the history holds min(500, n)
\* entries, never more than 500, and they are the last min(500, n)
\* replacements in the order they were made (the k-th call replaced path k).
C29_HistoryIsLastFiveHundred ==
    LET n == state.total_replaced
        kept == Min(ReplacedKeep, n)
    IN  /\ Len(state.replaced_files) = kept
        /\ Len(state.replaced_files) <= ReplacedKeep
        /\ \A k \in 1 .. kept : state.replaced_files[k].path = n - kept + k

\* 503 replacements: the history holds those of paths 4 to 503.
C29_Witness ==
    /\ state.total_replaced = ReplacedKeep + 3
    /\ Len(state.replaced_files) = ReplacedKeep
    /\ state.replaced_files[1].path = 4
    /\ state.replaced_files[ReplacedKeep].path = ReplacedKeep + 3

\* The probe of this validation failed: only line 319 adds an ffprobe error.
ProbeFailed ==
    \E k \in 1 .. Len(val.errors) : val.errors[k].stage = "ffprobe"

\* C30: when the probe fails validate_file has returned, with valid = false
\* and the probe's error as its only error; no duration or bitrate check has
\* added an error or a warning, and no sample and no full decode is or will
\* be run.
C30_ProbeFailureReturnsAtOnce ==
    ProbeFailed =>
        /\ val.pc = "done"
        /\ ~val.valid
        /\ Len(val.errors) = 1
        /\ val.warnings = << >>
        /\ val.decoded = << >>
        /\ ~val.timed_out

\* The probe failed on a file whose duration is beyond the limit and whose
\* bitrate is low, with the duration check, the deep scan and the full
\* decode all enabled.
C30_Witness ==
    /\ ProbeFailed
    /\ val.cfg.extended
    /\ val.cfg.check_duration_sanity
    /\ val.cfg.deep_scan_enabled
    /\ val.cfg.full_decode_enabled
    /\ val.duration > MaxDurationHours * 3600
    /\ val.low_bitrate

\* The hard-failure stages of this validation that failed: the probe, the
\* 3D detection, the duration ceiling, a decode test.
FailedDecodes == {k \in 1 .. Len(val.decoded) : ~val.decoded[k].result.success}

HardFailure ==
    \/ val.probe_failed
    \/ val.cfg.replace_3d /\ val.detected_3d
    \/ val.cfg.check_duration_sanity /\ val.duration > MaxDurationHours * 3600
    \/ FailedDecodes # {}

StageRank(stage) ==
    CASE stage = "ffprobe" -> 1 [] stage = "3d" -> 2 [] stage = "duration" -> 3
      [] stage = "start" -> 4 [] stage = "middle" -> 5 [] stage = "end" -> 6
      [] OTHER -> 7

\* C31: the result validate_file returns is invalid exactly when a
\* hard-failure stage failed, and then its errors are not empty and stand
\* in stage order; a short duration and a low bitrate add their warnings
\* and leave valid as it is.
C31_ValidIffNoHardFailure ==
    val.pc = "done" =>
        /\ val.valid <=> ~HardFailure
        /\ ~val.valid =>
              /\ val.errors # << >>
              /\ \A k \in 1 .. Len(val.errors) - 1 :
                    StageRank(val.errors[k].stage)
                       <= StageRank(val.errors[k + 1].stage)
        /\ val.valid => val.errors = << >>
        /\ ~val.probe_failed /\ ~(val.cfg.replace_3d /\ val.detected_3d) =>
              val.warnings =
                 (IF val.cfg.check_duration_sanity /\ val.duration # 0
                     /\ val.duration < ShortDuration
                  THEN << "short" >> ELSE << >>)
                 \o (IF val.low_bitrate THEN << "bitrate" >> ELSE << >>)

\* A valid result with both warnings, after a start sample that passed.
C31_Witness ==
    /\ val.pc = "done"
    /\ val.valid
    /\ val.warnings = << "short", "bitrate" >>
    /\ Len(val.decoded) = 1

\* The step on which validation v reaches _check_rate_limit (line 145): an
\* invalid file with auto-replace on.
RateChecked(v) ==
    /\ config.auto_replace
    /\ \E outcome \in {"invalid", "mismatch", "timeout"} : JustValidated(v, outcome)

\* The check let the replacement go on.
Permitted(v) ==
    IF vtask'[v].pc = "done" THEN returned'.action_taken # "queued"
    ELSE vtask'[v].pc = "delete"

\* C32: a rate-limit check leaves the stored date at the current date; on a
\* date other than the stored one it sets the counter to zero and permits
\* the replacement (the budget is positive) whatever the count was; on the
\* stored date it leaves the counter and permits exactly below the budget.
C32_ResetBeforeCompare ==
    [][\A v \in VIds :
         RateChecked(v) =>
            /\ replacement_reset_date' = today
            /\ today # replacement_reset_date =>
                  /\ replacements_today' = 0
                  /\ Permitted(v)
            /\ today = replacement_reset_date =>
                  /\ replacements_today' = replacements_today
                  /\ Permitted(v) <=>
                        replacements_today < config.max_replacements_per_day]_vars

\* The budget of the first day was used up, and on the second day a check
\* has reset the counter and let a replacement begin.
C32_Witness ==
    /\ today = 2
    /\ replacement_reset_date = 2
    /\ replacements_today = 0
    /\ state.total_replaced >= config.max_replacements_per_day
    /\ \E v \in VIds : vtask[v].pc = "delete"

\* The step is add_to_cache(item) and it changed a cache.
Upserted(item) ==
    /\ media_cache' = Put(media_cache, item.file_path, item)
    /\ media_cache_by_instance' = PutInstance(media_cache_by_instance, item)
    /\ << media_cache', media_cache_by_instance' >>
          # << media_cache, media_cache_by_instance >>

\* C33: after add_to_cache(item), for an item whose instance has a connected
\* client, find_item_by_path(item.file_path) returns that item, whatever the
\* caches held before.
C33_UpsertResolves ==
    [][\A instance \in Instances, i \in ItemIds :
          LET item == InstanceItem(instance, i)
          IN  (/\ Upserted(item)
               /\ get_client_for_item(item, radarr_clients, sonarr_clients) # "none")
              => find_item_by_path(item.file_path, media_cache',
                                   media_cache_by_instance', radarr_clients,
                                   sonarr_clients).item = item]_vars

\* A refresh_library call has begun and has not returned.
RefreshInProgress == \E r \in RIds : rtask[r].pc = "fetching"

\* C34: while a refresh_library call is in progress the status says
\* refreshing, in phase "fetching" or "processing"; while none is, it says
\* not refreshing, with phase, source and current instance cleared.
C34_StatusTracksRefresh ==
    /\ RefreshInProgress =>
          /\ refresh_status.refreshing
          /\ refresh_status.refresh_phase \in {"fetching", "processing"}
    /\ ~RefreshInProgress => refresh_status = NoRefresh

\* The items background scan b has drawn and not yet begun to validate.
Undone(b) ==
    IF bgtask[b].pc = "validating" THEN Range(bgtask[b].batch) ELSE {}

\* C35: the batches of two background scans that are both under way share
\* no item (stated for the part of each batch that is still to be validated).
C35_BatchesDisjoint ==
    \A b1, b2 \in BIds : b1 # b2 => Undone(b1) \cap Undone(b2) = {}

\* C36: every item waiting in the scan queue is found by find_item_by_path.
C36_QueueResolvable ==
    \A k \in DOMAIN scan_queue :
        find_item_by_path(scan_queue[k].file_path, media_cache,
                          media_cache_by_instance, radarr_clients,
                          sonarr_clients).item # NoItem

\* validate_and_process call v is past its checks (lines 78-88) for the path
\* and has not returned.
Validating(v, file_path) ==
    /\ vtask[v].pc \in {"validate", "delete", "search"}
    /\ vtask[v].file_path = file_path

\* A replacement of the path is recorded and its file is still gone.
ReplacedAndGone(file_path) ==
    /\ \E k \in DOMAIN state.replaced_files :
          state.replaced_files[k].path = file_path
    /\ ~is_scanned(state, file_path)
    /\ file_path \notin OnDisk(files)

\* C37: a call that is in flight for a path whose replacement is recorded
\* and whose file is still gone passed its existence check before that
\* replacement deleted the file, so it started before the replacement; when
\* such a call returns, the path is still out of the scanned set.
C37_ReplacedStaysUnscanned ==
    [][\A v \in VIds, file_path \in Paths :
          (/\ Validating(v, file_path)
           /\ ReplacedAndGone(file_path)
           /\ vtask'[v].pc = "done")
          => ~is_scanned(state', file_path)]_vars

\* A validate_and_process call returns on this step.
Returns(v) == vtask[v].pc # "done" /\ vtask'[v].pc = "done"

\* The counter is set to zero by the check of a date other than the stored one.
DateReset ==
    /\ replacements_today' = 0
    /\ today # replacement_reset_date
    /\ replacement_reset_date' = today

\* C38: the rate-limit counter changes only by +1 on the step a call returns
\* "replaced" (the step that records the replacement) and by a reset to zero
\* at a check on a new date; every recorded replacement adds 1; a call that
\* returns anything else leaves the counter alone, the reset of its own
\* check apart.
C38_CounterCountsReplacements ==
    [][/\ replacements_today' # replacements_today =>
             \/ /\ replacements_today' = replacements_today + 1
                /\ state'.total_replaced = state.total_replaced + 1
                /\ returned'.action_taken = "replaced"
                /\ \E v \in VIds : Returns(v) /\ vtask[v].pc = "search"
             \/ DateReset
       /\ state'.total_replaced # state.total_replaced =>
             replacements_today' = replacements_today + 1
       /\ (\E v \in VIds : Returns(v) /\ returned'.action_taken # "replaced") =>
             \/ replacements_today' = replacements_today
             \/ DateReset]_vars

\* The second replacement overall is the first since the reset of day 2.
C38_Witness ==
    /\ returned.action_taken = "replaced"
    /\ replacement_reset_date = 2
    /\ replacements_today = 1
    /\ state.total_replaced = 2

\* C39: the scanner's initial-scan-complete flag is true exactly when the
\* state store has a scan-completed timestamp.
C39_FlagAgreesWithStore ==
    initial_scan_complete = get_stats(state).initial_scan_done

\* find_item_by_path finds an item for the path in the given caches.
Resolvable(file_path, cache, by_instance) ==
    find_item_by_path(file_path, cache, by_instance, radarr_clients,
                      sonarr_clients).item # NoItem

\* C40: a path that find_item_by_path resolves when a refresh_library call
\* completes is still resolved after it.  With every fetch succeeding and
\* no deletion, a cached item the refresh did not fetch was inserted by
\* add_to_cache after the fetch of its instance, while the refresh was in
\* flight.
C40_ImportSurvivesRefresh ==
    [][\A r \in RIds :
          rtask[r].pc = "fetching" /\ rtask'[r].pc = "done" =>
             \A file_path \in Paths :
                Resolvable(file_path, media_cache, media_cache_by_instance)
                   => Resolvable(file_path, media_cache',
                                 media_cache_by_instance')]_vars

====
